---- MODULE Spec2Model ----
(***************************************************************************)
(* A model of vlc-rpc: the status reader (status_reader.py), the cover-art  *)
(* cache (audio.py), the presence states and the Discord client             *)
(* (media_states.py, discord_client.py) and the stand-alone file-polling    *)
(* handler (discord_handler.py).                                            *)
(*                                                                          *)
(* Conventions.  A Python value that may be None or absent from a dict is   *)
(* an option: None is << >> and a present value v is <<v>>.  Texts are      *)
(* strings; Len, \o and SubSeq are Python's len, + and slicing.  The module *)
(* text is ASCII, so the bullet U+2022 is written "@" (one character) and   *)
(* the three characters U+00E2 U+20AC U+00A2 that discord_handler.py holds  *)
(* in its place are written "#%&".                                          *)
(***************************************************************************)
EXTENDS Integers, Sequences, FiniteSets, TLC

VARIABLES
    now,                    \* the wall clock, int(time.time())
    ft_text, ft_result,     \* MediaState.format_text: argument and result
    ft_done,
    sc_call,                \* the last _calculate_release_score call: its arguments
    sc_ret,                 \* and what it did: raised or the score returned
    vd_call,                \* the analyze call: media_info, the image search's answer
    vd_ret,                 \* and what it returned
    mb_call,                \* the _fetch_from_musicbrainz call: media, the answers
    mb_ret,                 \* and what it did: searches, probes, URL returned
    fz_call,                \* the _fuzzy_match call: str1, str2
    fz_ret,                 \* and what it returned
    client,                 \* a DiscordRPCClient: rpc, connected, its last call
    HTTP_ENABLED,           \* Config.HTTP_ENABLED, as parsed from vlcrc
    sr_last_status,         \* StatusReader.last_status
    sr_last_status_hash,    \* StatusReader.last_status_hash
    sr_ret,                 \* what the last read_status call returned
    sr_call,                \* the last read_status call: response, content, force
    sr_prev,                \* the read_status call before it
    sr_before,              \* last_status and last_status_hash before the last call
    cs_ret,                 \* the last check_vlc_status call: response and result
    ticks,                  \* how many times the clock has moved
    cache,                  \* CoverArt.cache: cache key -> {url, timestamp}
    ca_ret,                 \* what the last CoverArt.fetch returned
    ca_call,                \* the last fetch: media, start time, requests made
    ca_watched,             \* the media whose fetches are remembered
    ca_last,                \* the last fetch of it that completed
    ca_resolved,            \* the last fetch of it that ran the search
    variant,                \* which program runs: "handler" (discord_handler.py)
                            \* or "states" (media_states.py on discord_client.py)
    file,                   \* the status file: exists, mtime, content
    last_status,            \* VLCDiscordRP.last_status
    connected,              \* VLCDiscordRP.connected / DiscordRPCClient.connected
    last_file_mod_time,     \* VLCDiscordRP.last_file_mod_time
    last_check_time,        \* VLCDiscordRP.last_check_time
    simulated_position,     \* VLCDiscordRP.simulated_position
    last_position_update,   \* VLCDiscordRP.last_position_update
    sink,                   \* the calls the last cycle made on the sink, in order
    cycle,                  \* the last cycle: what it read and did
    run                     \* VLCDiscordRP.run: where it is, how the last cycle
                            \* ended, when the last snapshot was read

textVars == <<ft_text, ft_result, ft_done>>
readerVars == <<HTTP_ENABLED, sr_last_status, sr_last_status_hash, sr_ret,
                sr_call, sr_prev, sr_before, cs_ret>>
coverVars == <<ticks, cache, ca_ret, ca_call, ca_watched, ca_last,
              ca_resolved>>
handlerVars == <<variant, file, last_status, connected, last_file_mod_time,
                 last_check_time, simulated_position, last_position_update,
                 sink, cycle, run>>
scoreVars == <<sc_call, sc_ret>>
videoVars == <<vd_call, vd_ret>>
searchVars == <<mb_call, mb_ret>>
fuzzyVars == <<fz_call, fz_ret>>
vars == <<now, textVars, scoreVars, videoVars, searchVars, fuzzyVars, client,
         readerVars, coverVars, handlerVars>>

None == << >>
Some(v) == <<v>>
\* dict.get(key, default) for an optional field
Get(opt, default) == IF opt = None THEN default ELSE opt[1]
\* Python truthiness of an optional text or number: absent, "" and 0 are falsy
TruthyText(opt) == opt # None /\ opt[1] # ""

Bullet == "@"
Mojibake == "#%&"

RECURSIVE Repeat(_, _)
Repeat(s, n) ==
    IF n = 0 THEN ""
    ELSE IF n % 2 = 0 THEN LET h == Repeat(s, n \div 2) IN h \o h
    ELSE s \o Repeat(s, n - 1)

(***************************************************************************)
(* The state of each part after construction                                *)
(***************************************************************************)
EmptyDict == [empty |-> TRUE]

\* The record of a call: n flips with every call, so that two calls in a
\* row never leave the same record.
Call(response, content, force_update, converted) ==
    [response |-> response, content |-> content, force |-> force_update,
     converted |-> converted, n |-> 1 - sr_call.n, log |-> None]

NoCall == [response |-> "none", content |-> None, force |-> FALSE,
           converted |-> FALSE, n |-> 0, log |-> None]

NoCheck == [response |-> "none", result |-> None, n |-> 0]

ReaderIdle ==
    /\ HTTP_ENABLED = FALSE
    /\ sr_last_status = EmptyDict
    /\ sr_last_status_hash = ""
    /\ sr_ret = None
    /\ sr_call = NoCall
    /\ sr_prev = [response |-> "none", content |-> None]
    /\ sr_before = [last_status |-> EmptyDict, last_status_hash |-> ""]
    /\ cs_ret = NoCheck

TextIdle == ft_text = "" /\ ft_result = "" /\ ft_done = FALSE
NoScore == [raised |-> FALSE, score |-> 0]
ScoreIdle == sc_call = None /\ sc_ret = NoScore

NoVideo == [done |-> FALSE]
VideoIdle == vd_call = None /\ vd_ret = NoVideo

NoSearch == [done |-> FALSE]
SearchIdle == mb_call = None /\ mb_ret = NoSearch

NoFuzzy == [done |-> FALSE]
FuzzyIdle == fz_call = None /\ fz_ret = NoFuzzy

NoClient ==
    [rpc |-> None, connected |-> FALSE,
     last |-> [n |-> 0, op |-> "none", was_connected |-> FALSE,
               calls |-> << >>, ret |-> FALSE]]
ClientIdle == client = NoClient

\* The media CoverArt.fetch is asked about: the "media" section of a status.
\* The first two differ and yet yield one cache key; the third has a title
\* only.  UnsetMedia has no field that is set, and so no cache key.
MediaDict(artist, album, title) ==
    [artist |-> artist, album |-> album, title |-> title]

CoverMedia ==
    { MediaDict(Some("Pink Floyd|album:The Dark Side of the Moon"), None,
                Some("Money")),
      MediaDict(Some("Pink Floyd"), Some("The Dark Side of the Moon"),
                Some("Money")),
      MediaDict(None, None, Some("Money")) }

UnsetMedia == MediaDict(Some(""), None, Some(""))

NoFetch == [media |-> None, start |-> 0, kind |-> "none", requests |-> << >>,
            n |-> 0]

NoCycle ==
    [n |-> 0, state |-> "none", read |-> "none", extrapolated |-> FALSE,
     status |-> None, time |-> 0, connected |-> FALSE, stopped |-> FALSE,
     ret |-> FALSE]
NoFile == [exists |-> FALSE, mtime |-> 0, content |-> [json |-> "none"]]
NoRun == [pc |-> "none", outcome |-> "none", received |-> 0, backoffs |-> 0]

HandlerIdle ==
    /\ variant = "none"
    /\ file = NoFile
    /\ last_status = EmptyDict
    /\ connected = FALSE
    /\ last_file_mod_time = 0
    /\ last_check_time = 0
    /\ simulated_position = 0
    /\ last_position_update = 0
    /\ sink = << >>
    /\ cycle = NoCycle
    /\ run = NoRun

CoverIdle ==
    /\ ticks = 0
    /\ cache = << >>
    /\ ca_ret = None
    /\ ca_call = NoFetch
    /\ ca_watched = None
    /\ ca_last = None
    /\ ca_resolved = None

(***************************************************************************)
(* status_reader.py: StatusReader                                           *)
(***************************************************************************)
\* The response bodies VLC may send with HTTP 200.  A body is its parsed
\* shape: "invalid" is not JSON (json.loads raises JSONDecodeError),
\* "badtime" is an object whose "time" is no number (_convert_vlc_status
\* raises ValueError), "object" is a status object.
VlcObject(state, time, length, meta, video) ==
    [json |-> "object", state |-> state, time |-> time, length |-> length,
     position |-> None, meta |-> meta, video |-> video]

Meta(title, artist, album) ==
    Some([title |-> title, filename |-> None, artist |-> artist,
          album |-> album, artwork_url |-> None])

Contents ==
    { [json |-> "invalid"], [json |-> "badtime"],
      VlcObject(Some("playing"), 30, 300,
                Meta(Some("Money"), Some("Pink Floyd"), None), None),
      VlcObject(Some("paused"), 30, 300,
                Meta(Some("Money"), None, None), None),
      VlcObject(Some("playing"), 5, 3, None, Some(Some(<<1920, 1080>>))),
      VlcObject(None, 0, 0, None, Some(None)) }

\* hashlib.md5(content).hexdigest(): a digest is not the content, and no two
\* of the bodies above share one.
md5(content) == <<"md5", content>>

Responses == {"200", "401", "404", "500", "ConnectionError", "Timeout"}

\* json.loads(content) succeeds
json_loads_ok(content) == content.json # "invalid"

convert_raises(vlc_status) == vlc_status.json = "badtime"

convert_vlc_status(vlc_status, t) ==
    LET state == Get(vlc_status.state, "stopped")
        meta == vlc_status.meta
        media ==
            IF meta = None
            THEN [title |-> None, artist |-> None, album |-> None,
                  artwork_url |-> None]
            ELSE [title |-> Some(Get(meta[1].title,
                                     Get(meta[1].filename, "Unknown"))),
                  artist |-> Some(Get(meta[1].artist, "")),
                  album |-> Some(Get(meta[1].album, "")),
                  artwork_url |-> IF TruthyText(meta[1].artwork_url)
                                  THEN meta[1].artwork_url ELSE None]
    IN  [active |-> state # "stopped",
         status |-> state,
         timestamp |-> t,
         playback |-> [position |-> Get(vlc_status.position, 0),
                       time |-> vlc_status.time,
                       duration |-> vlc_status.length],
         media |-> media,
         media_type |-> IF vlc_status.video # None THEN "video" ELSE "audio",
         video_info |->
            IF vlc_status.video # None /\ vlc_status.video[1] # None
            THEN Some([width |-> vlc_status.video[1][1][1],
                       height |-> vlc_status.video[1][1][2]])
            ELSE None]

\* read_status skips the conversion when this holds (status_reader.py:80)
unchanged_always(content_hash, force_update) == FALSE

unchanged(content_hash, force_update) ==
    content_hash = sr_last_status_hash /\ ~force_update

MaxTime == 2

InitReader ==
    /\ now = 0
    /\ HandlerIdle
    /\ TextIdle
    /\ ScoreIdle
    /\ VideoIdle
    /\ SearchIdle
    /\ FuzzyIdle
    /\ ClientIdle
    /\ CoverIdle
    /\ HTTP_ENABLED \in BOOLEAN
    /\ sr_last_status = EmptyDict
    /\ sr_last_status_hash = ""
    /\ sr_ret = None
    /\ sr_call = NoCall
    /\ sr_prev = [response |-> "none", content |-> None]
    /\ sr_before = [last_status |-> EmptyDict, last_status_hash |-> ""]
    /\ cs_ret = NoCheck

\* The clock moves on between two calls.
Tick ==
    /\ now < MaxTime
    /\ now' = now + 1
    /\ UNCHANGED <<textVars, scoreVars, videoVars, searchVars, fuzzyVars, client, readerVars, coverVars, handlerVars>>

\* What every call records of the state it started in.
Called ==
    /\ sr_prev' = [response |-> sr_call.response, content |-> sr_call.content]
    /\ sr_before' = [last_status |-> sr_last_status,
                     last_status_hash |-> sr_last_status_hash]

\* status_reader.py:61-74 and 91-98: what read_status logs when the request
\* ends without a 200 response
LogRecord(level, message) == Some([level |-> level, message |-> message])

failure_log_all_debug(response) ==
    LogRecord("debug", "VLC is not running or HTTP interface is misconfigured")

failure_log(response) ==
    IF response = "404"
    THEN LogRecord("debug",
                   "VLC is not running or HTTP interface is misconfigured")
    ELSE IF response = "401"
    THEN LogRecord("error", "Authentication failed. Check your HTTP password.")
    ELSE IF response = "ConnectionError"
    THEN LogRecord("debug",
                   "VLC is not running or HTTP interface is not accessible")
    ELSE IF response = "Timeout"
    THEN LogRecord("debug", "Connection to VLC timed out")
    ELSE LogRecord("error", "Failed to get VLC status: HTTP " \o response)

\* status_reader.py:74, 95 and 98: what read_status returns then
failure_result(response) == None

\* check_vlc_status: <<is_running, message>>
check_vlc_status(enabled, response) ==
    IF ~enabled
    THEN <<FALSE, "VLC HTTP interface is not enabled in configuration">>
    ELSE IF response = "200"
    THEN <<TRUE, "VLC is running and HTTP interface is accessible">>
    ELSE IF response = "401"
    THEN <<FALSE,
           "VLC is running but authentication failed (incorrect password)">>
    ELSE IF response = "404"
    THEN <<FALSE,
           "VLC is running but the HTTP interface is not properly configured">>
    ELSE IF response = "ConnectionError"
    THEN <<FALSE, "VLC is not running or HTTP interface is not enabled">>
    ELSE IF response = "Timeout"
    THEN <<FALSE, "Connection to VLC timed out">>
    ELSE <<FALSE, "VLC returned unexpected status code: " \o response>>

\* read_status with HTTP_ENABLED false: no request is made.
ReadDisabled(force_update) ==
    /\ ~HTTP_ENABLED
    /\ Called
    /\ sr_ret' = None
    /\ sr_call' = [Call("disabled", None, force_update, FALSE) EXCEPT
                     !.log = LogRecord("warning",
                                       "VLC HTTP interface is not enabled")]
    /\ UNCHANGED <<now, textVars, scoreVars, videoVars, searchVars, fuzzyVars, client, coverVars, handlerVars, HTTP_ENABLED,
                   sr_last_status, sr_last_status_hash, cs_ret>>

\* read_status when the request ends without a 200 response.
ReadFailed_forgets(response, force_update) ==
    /\ HTTP_ENABLED
    /\ Called
    /\ response # "200"
    /\ sr_ret' = failure_result(response)
    /\ sr_call' = [Call(response, None, force_update, FALSE) EXCEPT
                     !.log = failure_log(response)]
    /\ sr_last_status' = EmptyDict
    /\ UNCHANGED <<now, textVars, scoreVars, videoVars, searchVars, fuzzyVars, client, coverVars, handlerVars, HTTP_ENABLED,
                   sr_last_status_hash, cs_ret>>

ReadFailed(response, force_update) ==
    /\ HTTP_ENABLED
    /\ Called
    /\ response # "200"
    /\ sr_ret' = failure_result(response)
    /\ sr_call' = [Call(response, None, force_update, FALSE) EXCEPT
                     !.log = failure_log(response)]
    /\ UNCHANGED <<now, textVars, scoreVars, videoVars, searchVars, fuzzyVars, client, coverVars, handlerVars, HTTP_ENABLED,
                   sr_last_status, sr_last_status_hash, cs_ret>>

\* read_status on a 200 response whose body is content.
Read200(content, force_update) ==
    LET content_hash == md5(content) IN
    /\ HTTP_ENABLED
    /\ Called
    /\ IF unchanged(content_hash, force_update)
       THEN /\ sr_ret' = sr_last_status
            /\ sr_call' = Call("200", Some(content), force_update, FALSE)
            /\ UNCHANGED <<sr_last_status, sr_last_status_hash>>
       ELSE /\ sr_last_status_hash' = content_hash
            /\ IF ~json_loads_ok(content) \/ convert_raises(content)
               THEN /\ sr_ret' = None
                    /\ sr_call' =
                          [Call("200", Some(content), force_update, FALSE)
                             EXCEPT !.log =
                                IF ~json_loads_ok(content)
                                THEN LogRecord("error",
                                               "Invalid JSON in VLC response")
                                ELSE LogRecord("error",
                                               "Error reading VLC status")]
                    /\ UNCHANGED sr_last_status
               ELSE /\ sr_last_status' = convert_vlc_status(content, now)
                    /\ sr_ret' = sr_last_status'
                    /\ sr_call' = Call("200", Some(content), force_update,
                                        TRUE)
    /\ UNCHANGED <<now, textVars, scoreVars, videoVars, searchVars, fuzzyVars, client, coverVars, handlerVars, HTTP_ENABLED,
                   cs_ret>>

\* check_vlc_status(): a request of its own; it touches no field.
CheckVlcStatus(response) ==
    /\ cs_ret' = [response |-> response,
                  result |-> Some(check_vlc_status(HTTP_ENABLED, response)),
                  n |-> 1 - cs_ret.n]
    /\ UNCHANGED <<now, textVars, scoreVars, videoVars, searchVars, fuzzyVars, client, coverVars, handlerVars, HTTP_ENABLED,
                   sr_last_status, sr_last_status_hash, sr_ret, sr_call,
                   sr_prev, sr_before>>

NextReader ==
    \/ Tick
    \/ \E f \in BOOLEAN : ReadDisabled(f)
    \/ \E r \in Responses, f \in BOOLEAN : ReadFailed(r, f)
    \/ \E c \in Contents, f \in BOOLEAN : Read200(c, f)

SpecReader == InitReader /\ [][NextReader]_vars

\* The reader while VLC gives no status: read_status and check_vlc_status on
\* requests that end without a 200 response.
NextUnavailable ==
    \/ Tick
    \/ \E f \in BOOLEAN : ReadDisabled(f)
    \/ \E r \in Responses, f \in BOOLEAN : ReadFailed(r, f)
    \/ \E r \in Responses : CheckVlcStatus(r)

SpecUnavailable == InitReader /\ [][NextUnavailable]_vars

\* C1: when two consecutive HTTP-200 reads return the same content and the
\* second is not forced, the second returns the stored last_status without
\* converting the content again and leaves last_status and last_status_hash
\* as they were.
C1_SameContentUnchanged ==
    ( /\ sr_call.response = "200"
      /\ sr_prev.response = "200"
      /\ sr_call.content = sr_prev.content
      /\ ~sr_call.force )
    => /\ sr_ret = sr_before.last_status
       /\ ~sr_call.converted
       /\ sr_last_status = sr_before.last_status
       /\ sr_last_status_hash = sr_before.last_status_hash

\* The second of two reads of one status object, taken when the clock has
\* moved on: a conversion would have stamped it with the later time.
C1_Witness ==
    /\ sr_call.response = "200"
    /\ sr_prev.response = "200"
    /\ sr_call.content = sr_prev.content
    /\ ~sr_call.force
    /\ sr_call.content[1].json = "object"
    /\ sr_ret # EmptyDict
    /\ sr_ret.timestamp < now
    /\ sr_ret.status = "playing"

Max(a, b) == IF a >= b THEN a ELSE b

\* str(n) and format(n, "02d") for n >= 0
Digits == <<"0", "1", "2", "3", "4", "5", "6", "7", "8", "9">>

RECURSIVE str(_)
str(n) ==
    IF n < 10 THEN Digits[n + 1]
    ELSE str(n \div 10) \o Digits[(n % 10) + 1]

fmt02d(n) == IF n < 10 THEN "0" \o str(n) ELSE str(n)

\* A status file that holds JSON which is not an object, such as [1]:
\* json.load returns a non-empty list, which has no get method.
NotADict == [json |-> "array"]

(***************************************************************************)
(* audio.py: CoverArt._calculate_release_score and _fuzzy_match             *)
(***************************************************************************)
UPPER == "ABCDEFGHIJKLMNOPQRSTUVWXYZ"
LOWER == "abcdefghijklmnopqrstuvwxyz"
\* the characters that \w and \s match, among those the model uses
WORD_CHARS == UPPER \o LOWER \o "0123456789_ "

Chars(text) == { SubSeq(text, i, i) : i \in 1..Len(text) }

\* str.lower() of one character
lower_char(c) ==
    IF c \in Chars(UPPER)
    THEN LET i == CHOOSE k \in 1..Len(UPPER) : SubSeq(UPPER, k, k) = c
         IN  SubSeq(LOWER, i, i)
    ELSE c

RECURSIVE lower(_)
lower(text) ==
    IF text = "" THEN ""
    ELSE lower_char(SubSeq(text, 1, 1)) \o lower(SubSeq(text, 2, Len(text)))

\* re.sub(r"[^\w\s]", "", text)
RECURSIVE strip_special(_)
strip_special(text) ==
    IF text = "" THEN ""
    ELSE (IF SubSeq(text, 1, 1) \in Chars(WORD_CHARS) THEN SubSeq(text, 1, 1)
          ELSE "")
         \o strip_special(SubSeq(text, 2, Len(text)))

\* Python's  a in b  for strings
contains(a, b) ==
    \/ a = ""
    \/ \E i \in 1..(Len(b) - Len(a) + 1) : SubSeq(b, i, i + Len(a) - 1) = a

\* _fuzzy_match with the substring test open to texts of 5 characters
fuzzy_match_five(str1, str2) ==
    LET s1 == strip_special(lower(str1))
        s2 == strip_special(lower(str2))
    IN  \/ s1 = s2
        \/ /\ Len(s1) >= 5
           /\ Len(s2) >= 5
           /\ (contains(s1, s2) \/ contains(s2, s1))

\* _fuzzy_match(str1, str2)
fuzzy_match(str1, str2) ==
    LET s1 == strip_special(lower(str1))
        s2 == strip_special(lower(str2))
    IN  \/ s1 = s2
        \/ /\ Len(s1) > 5
           /\ Len(s2) > 5
           /\ (contains(s1, s2) \/ contains(s2, s1))

\* A recording and a release of a MusicBrainz response, and an entry of a
\* release's artist-credit list.  A key that is absent is None.
Recording(score, title) == [score |-> score, title |-> title]

Credit(name, aliases) == [name |-> name, artist |-> [aliases |-> aliases]]

Release(score, title, credit, date, status, types, type_ids) ==
    [score |-> score, title |-> title, artist_credit |-> credit,
     date |-> date, status |-> status, secondary_types |-> types,
     secondary_type_ids |-> type_ids]

\* The media dict the score is computed for.
ScoreMedia(artist, album, title, date, year) ==
    [artist |-> artist, album |-> album, title |-> title, date |-> date,
     year |-> year]

IsCredit(entry) == entry # NotADict

\* Lines 291-298: the lowercased names and alias names of the credits
artist_names(release) ==
    UNION { {lower(Get(c.name, ""))}
                \cup { lower(c.artist.aliases[k]) :
                            k \in 1..Len(c.artist.aliases) } :
            c \in { release.artist_credit[i] :
                        i \in { j \in 1..Len(release.artist_credit) :
                                    IsCredit(release.artist_credit[j]) } } }

\* points of a text match: all for a fuzzy match, part for a substring
match_points(a, b, all, part) ==
    IF fuzzy_match(a, b) THEN all
    ELSE IF contains(a, b) \/ contains(b, a) THEN part
    ELSE 0

\* Lines 289-306: artist matching
artist_points_half(release, media) ==
    IF ~TruthyText(media.artist) THEN 0
    ELSE LET media_artist == lower(media.artist[1])
             names == artist_names(release)
         IN  IF \E n \in names : fuzzy_match(media_artist, n) THEN 50
             ELSE IF \E n \in names :
                        contains(media_artist, n) \/ contains(n, media_artist)
                  THEN 35
             ELSE 0

artist_points(release, media) ==
    IF ~TruthyText(media.artist) THEN 0
    ELSE LET media_artist == lower(media.artist[1])
             names == artist_names(release)
         IN  IF \E n \in names : fuzzy_match(media_artist, n) THEN 100
             ELSE IF \E n \in names :
                        contains(media_artist, n) \/ contains(n, media_artist)
                  THEN 70
             ELSE 0

\* Lines 308-316: album matching
album_points(release, media) ==
    IF TruthyText(media.album) /\ TruthyText(release.title)
    THEN match_points(lower(media.album[1]), lower(release.title[1]), 100, 70)
    ELSE 0

\* Lines 318-326: title matching
title_points(recording, media) ==
    IF TruthyText(media.title) /\ TruthyText(recording.title)
    THEN match_points(lower(media.title[1]), lower(recording.title[1]), 80, 50)
    ELSE 0

\* Lines 328-336: date/year matching
date_points(release, media) ==
    IF TruthyText(media.date) \/ media.year # None
    THEN LET media_year == IF TruthyText(media.date) THEN media.date[1]
                           ELSE str(media.year[1])
             release_date == Get(release.date, "")
         IN  IF /\ Len(media_year) >= 4
                /\ release_date # ""
                /\ Len(release_date) >= 4
                /\ SubSeq(release_date, 1, 4) = SubSeq(media_year, 1, 4)
             THEN 40 ELSE 0
    ELSE 0

\* Lines 338-340
status_points(release) ==
    IF release.status = Some("Official") THEN 30 ELSE 0

Has(types, t) == \E i \in 1..Len(types) : types[i] = t

\* Lines 342-358: the penalties, as a number to subtract
penalties(release) ==
    IF release.secondary_types # None /\ release.secondary_types[1] # << >>
    THEN LET types == release.secondary_types[1] IN
         (IF Has(types, "Compilation") THEN 15 ELSE 0)
         + (IF Has(types, "Live") THEN 25 ELSE 0)
         + (IF Has(types, "Remix") THEN 20 ELSE 0)
    ELSE IF release.secondary_type_ids THEN 20
    ELSE 0

Min(a, b) == IF a <= b THEN a ELSE b

\* _calculate_release_score(recording, release, media): whether it raised,
\* and the score it returned otherwise.  With recording None, line 286
\* raises AttributeError ('NoneType' object has no attribute 'get').
calculate_release_score(recording, release, media) ==
    IF recording = None THEN [raised |-> TRUE, score |-> 0]
    ELSE LET base_score == IF recording.score # None THEN recording.score[1]
                           ELSE Get(release.score, 0)
             score == Min(base_score, 100)
                      + artist_points(release, media)
                      + album_points(release, media)
                      + title_points(recording, media)
                      + date_points(release, media)
                      + status_points(release)
                      - penalties(release)
         IN  [raised |-> FALSE, score |-> Max(0, score)]

(***************************************************************************)
(* audio.py: CoverArt.fetch and its cache                                   *)
(***************************************************************************)
CACHE_TTL == 3600

\* "|".join of the key parts
RECURSIVE Join(_)
Join(parts) ==
    IF parts = << >> THEN ""
    ELSE IF Len(parts) = 1 THEN parts[1]
    ELSE parts[1] \o "|" \o Join(Tail(parts))

KeyPart(media, field) ==
    IF TruthyText(media[field])
    THEN << field \o ":" \o media[field][1] >>
    ELSE << >>

\* _create_cache_key: None when no field is set
create_cache_key(media) ==
    LET key_parts == KeyPart(media, "artist") \o KeyPart(media, "album")
                        \o KeyPart(media, "title")
    IN  IF key_parts = << >> THEN None ELSE Some(md5(Join(key_parts)))

\* _extract_media_data: a full status yields its "media" section
extract_media_data(media_info) ==
    IF media_info = None THEN None
    ELSE IF "media" \in DOMAIN media_info THEN Some(media_info.media)
    ELSE Some(media_info)

build_query(media) ==
    LET a == TruthyText(media.artist)
        b == TruthyText(media.album)
        t == TruthyText(media.title)
    IN  IF a /\ t /\ b
        THEN Some(media.title[1] \o " AND artist:" \o media.artist[1]
                    \o " AND release:\"" \o media.album[1] \o "\"")
        ELSE IF a /\ t
        THEN Some(media.title[1] \o " AND artist:" \o media.artist[1])
        ELSE IF a /\ b
        THEN Some("artist:\"" \o media.artist[1] \o "\" AND release:\""
                    \o media.album[1] \o "\"")
        ELSE IF b THEN Some("release:\"" \o media.album[1] \o "\"")
        ELSE IF a THEN Some("artist:\"" \o media.artist[1] \o "\"")
        ELSE IF t THEN Some("recording:\"" \o media.title[1] \o "\"")
        ELSE None

build_fallback_query(media) ==
    IF TruthyText(media.artist) /\ TruthyText(media.title)
    THEN Some("artist:\"" \o media.artist[1] \o "\"")
    ELSE None

\* What MusicBrainz and the Cover Art Archive answer to one search: the
\* request fails, or the response lists candidates. A candidate is a
\* recording with one release, or for a releases search the release alone,
\* and whether the HEAD request for its artwork gets a 200.
Candidate(id, recording, release, artwork) ==
    [id |-> id, recording |-> recording, release |-> release,
     artwork |-> artwork]

Failed == [ok |-> FALSE, candidates |-> << >>]
Found(candidates) == [ok |-> TRUE, candidates |-> candidates]

BareRelease == Release(None, None, << >>, None, None, None, FALSE)

\* A response whose only candidate scores 90 and has artwork.
Best == Found(<<Candidate("release-1", Recording(Some(90), None), BareRelease, TRUE)>>)

SearchAnswers == {Failed, Found(<< >>), Best}

CoverUrl(id) == "https://coverartarchive.org/release/" \o id \o "/front-500"

\* Line 208 and 256: the score below which a candidate is skipped
MIN_SCORE == 30

\* scored_releases.sort(key=score, reverse=True): stable, highest first
RECURSIVE sort_by_score(_)
sort_by_score(scored) ==
    IF scored = << >> THEN << >>
    ELSE LET top == CHOOSE i \in 1..Len(scored) :
                        /\ \A j \in 1..Len(scored) : scored[j].score <= scored[i].score
                        /\ \A j \in 1..(i - 1) : scored[j].score < scored[i].score
         IN  <<scored[top]>>
             \o sort_by_score(SubSeq(scored, 1, top - 1)
                              \o SubSeq(scored, top + 1, Len(scored)))

\* Lines 206-221 and 254-269: the loop over the sorted candidates, with the
\* HEAD requests it makes; the variant that probes low scores is a mutation
RECURSIVE try_all_releases(_)
try_all_releases(sorted) ==
    IF sorted = << >> THEN [probes |-> << >>, url |-> None]
    ELSE IF Head(sorted).artwork
    THEN [probes |-> <<Head(sorted).release_id>>,
          url |-> Some(CoverUrl(Head(sorted).release_id))]
    ELSE LET rest == try_all_releases(Tail(sorted))
         IN  [rest EXCEPT !.probes = <<Head(sorted).release_id>> \o @]

RECURSIVE try_releases(_)
try_releases(sorted) ==
    IF sorted = << >> THEN [probes |-> << >>, url |-> None]
    ELSE IF Head(sorted).score < MIN_SCORE THEN try_releases(Tail(sorted))
    ELSE IF Head(sorted).artwork
    THEN [probes |-> <<Head(sorted).release_id>>,
          url |-> Some(CoverUrl(Head(sorted).release_id))]
    ELSE LET rest == try_releases(Tail(sorted))
         IN  [rest EXCEPT !.probes = <<Head(sorted).release_id>> \o @]

\* The media dict as _calculate_release_score reads it: no date, no year
Scored(media) == ScoreMedia(media.artist, media.album, media.title, None, None)

\* Lines 176-230 (with_recording) and 232-279: score every candidate, sort,
\* try; an exception while scoring is caught at 227 / 277 and None returned.
\* results[i] is what _calculate_release_score did for candidates[i].
try_scored(candidates, results) ==
    IF \E i \in 1..Len(candidates) : results[i].raised
    THEN [probes |-> << >>, url |-> None]
    ELSE try_releases(sort_by_score(
            [i \in 1..Len(candidates) |->
                [score |-> results[i].score,
                 release_id |-> candidates[i].id,
                 artwork |-> candidates[i].artwork]]))

process_response(candidates, media, with_recording) ==
    try_scored(candidates,
               [i \in 1..Len(candidates) |->
                    calculate_release_score(
                        IF with_recording THEN candidates[i].recording
                        ELSE None,
                        candidates[i].release, Scored(media))])

\* _search_recordings, _process_recording_response
search_recordings(answer, media) ==
    IF ~answer.ok THEN [probes |-> << >>, url |-> None]
    ELSE process_response(answer.candidates, media, TRUE)

\* _search_releases, _process_release_response: scoring a candidate calls
\* _calculate_release_score(None, release, media), whose recording.get raises
\* AttributeError; the except clause returns None.
search_releases(answer, media) ==
    IF ~answer.ok THEN [probes |-> << >>, url |-> None]
    ELSE process_response(answer.candidates, media, FALSE)

Nothing == [probes |-> << >>, url |-> None]

\* What one search did: which of the three strategies it was, the HEAD
\* requests it made and what it returned.
Search(strategy, outcome) ==
    <<[strategy |-> strategy, probes |-> outcome.probes, url |-> outcome.url]>>

\* One strategy of _fetch_from_musicbrainz: whether its search is made, and
\* then which kind of search it requests and what the search did.
Strategy(number, kind, made, outcome) ==
    [requests |-> IF made THEN <<kind>> ELSE << >>,
     url |-> IF made THEN outcome.url ELSE None,
     searches |-> IF made THEN Search(number, outcome) ELSE << >>]

\* Lines 117-121: strategy 1, the releases search by album
by_album(media, ans) ==
    Strategy(1, "release",
             TruthyText(media.album)
                /\ (TruthyText(media.artist) \/ TruthyText(media.title)),
             search_releases(ans[1], media))

\* Lines 123-127: strategy 2, the recordings search, when strategy 1
\* returned no URL
by_title(media, ans, first) ==
    Strategy(2, "recording",
             first.url = None /\ TruthyText(media.title)
                /\ TruthyText(media.artist),
             search_recordings(ans[2], media))

\* Lines 129-136: the releases search with the fallback query
by_fallback(media, ans, first, second, query, fallback) ==
    Strategy(3, "release",
             first.url = None /\ second.url = None /\ fallback # None
                /\ fallback # query,
             search_releases(ans[3], media))

\* Lines 113-136: the first URL of the strategies, in their order
first_url(query, first, second, third) ==
    IF query = None THEN << << >>, None, << >> >>
    ELSE <<first.requests \o second.requests \o third.requests,
           IF first.url # None THEN first.url
           ELSE IF second.url # None THEN second.url
           ELSE third.url,
           first.searches \o second.searches \o third.searches>>

after_title(media, ans, first, second, query) ==
    first_url(query, first, second,
              by_fallback(media, ans, first, second, query,
                          build_fallback_query(media)))

after_album(media, ans, first, query) ==
    after_title(media, ans, first, by_title(media, ans, first), query)

\* _fetch_from_musicbrainz with the fallback search made whenever there is a
\* fallback query, whatever the earlier searches returned
fetch_fallback_always(media, ans) ==
    LET query == build_query(media)
        fallback == build_fallback_query(media)
        u2 == search_recordings(ans[2], media)
        u3 == search_releases(ans[3], media)
    IN  IF query = None THEN << << >>, None, << >> >>
        ELSE IF fallback = None THEN << << >>, None, << >> >>
        ELSE <<<<"recording", "release">>,
               IF u2.url # None THEN u2.url ELSE u3.url,
               Search(2, u2) \o Search(3, u3)>>

\* _fetch_from_musicbrainz: <<the kinds of the searches requested, the URL
\* or None, what each search did>>, given the answers the three strategies
\* would get.
fetch_from_musicbrainz(media, ans) ==
    after_album(media, ans, by_album(media, ans), build_query(media))

\* The cache maps every key that may occur to its entry, or to None for a
\* key the dict does not hold.
CacheKeys == { create_cache_key(m)[1] : m \in CoverMedia }
EmptyCache == [k \in CacheKeys |-> None]
InCache(key) == cache[key] # None
CachePut(key, entry) == [cache EXCEPT ![key] = Some(entry)]

\* the test of audio.py:34
fresh_or_equal(entry, t) == t - entry.timestamp <= CACHE_TTL
fresh_one_short(entry, t) == t - entry.timestamp < CACHE_TTL - 1

fresh(entry, t) == t - entry.timestamp < CACHE_TTL

\* How far the clock moves in one step, and how long a search may take.
ClockSteps == {1, CACHE_TTL - 1}
MaxTicks == 2

InitCover ==
    /\ now = 0
    /\ HandlerIdle
    /\ TextIdle
    /\ ScoreIdle
    /\ VideoIdle
    /\ SearchIdle
    /\ FuzzyIdle
    /\ ClientIdle
    /\ ReaderIdle
    /\ ticks = 0
    /\ cache = EmptyCache
    /\ ca_ret = None
    /\ ca_call = NoFetch
    /\ ca_watched \in { Some(m) : m \in CoverMedia }
    /\ ca_last = None
    /\ ca_resolved = None

TickCover(dt) ==
    /\ ticks < MaxTicks
    /\ ticks' = ticks + 1
    /\ now' = now + dt
    /\ UNCHANGED <<textVars, scoreVars, videoVars, searchVars, fuzzyVars, client, readerVars, handlerVars, cache, ca_ret, ca_call,
                   ca_watched, ca_last, ca_resolved>>

\* The inputs of fetch, and per input what its parts compute.
FetchInputs == CoverMedia \cup {UnsetMedia}
KeyOf == [m \in FetchInputs |-> create_cache_key(m)]
FoundOf ==
    [m \in FetchInputs |->
        [a \in SearchAnswers |->
            fetch_from_musicbrainz(m, <<Best, a, Best>>)]]

FetchRecord(media, kind, requests) ==
    [media |-> Some(media), start |-> now, kind |-> kind,
     requests |-> requests, n |-> 1 - ca_call.n]

\* fetch(media_info) for a media_info that is no dict or an empty one
FetchNothing ==
    /\ ca_ret' = None
    /\ ca_call' = [NoFetch EXCEPT !.kind = "nomedia", !.start = now,
                                  !.n = 1 - ca_call.n]
    /\ UNCHANGED <<now, textVars, scoreVars, videoVars, searchVars, fuzzyVars, client, readerVars, handlerVars, ticks, cache,
                   ca_watched, ca_last, ca_resolved>>

\* fetch(media_info): wrapped says whether media_info is the whole status or
\* its media section; answer is what the recordings search would get (a
\* releases search gets candidates) and took says whether the clock moved
\* while the searches ran.
Fetch(m, wrapped, answer, took) ==
    LET media_info == IF wrapped THEN Some([media |-> m]) ELSE Some(m)
        media == extract_media_data(media_info[1])[1]
        cache_key == KeyOf[media]
        hit == cache_key # None /\ InCache(cache_key[1])
                  /\ fresh(cache[cache_key[1]][1], now)
        found == FoundOf[media][answer]
        done == IF took /\ found[1] # << >> /\ ticks < MaxTicks
                THEN now + 1 ELSE now
        Remember(old, t, url) ==
            IF ca_watched = Some(m) THEN Some([time |-> t, url |-> url])
            ELSE old
    IN  IF hit
        THEN /\ ca_ret' = cache[cache_key[1]][1].url
             /\ ca_call' = FetchRecord(m, "hit", << >>)
             /\ ca_last' = Remember(ca_last, now, ca_ret')
             /\ UNCHANGED <<now, textVars, scoreVars, videoVars, searchVars, fuzzyVars, client, readerVars, handlerVars, ticks,
                            cache, ca_watched, ca_resolved>>
        ELSE /\ ca_ret' = found[2]
             /\ ca_call' = FetchRecord(m, "miss", found[1])
             /\ now' = done
             /\ ticks' = IF done = now THEN ticks ELSE ticks + 1
             /\ cache' = IF cache_key = None THEN cache
                         ELSE CachePut(cache_key[1],
                                       [url |-> found[2], timestamp |-> done])
             /\ ca_last' = Remember(ca_last, done, found[2])
             /\ ca_resolved' = Remember(ca_resolved, done, found[2])
             /\ UNCHANGED <<textVars, scoreVars, videoVars, searchVars, fuzzyVars, client, readerVars, handlerVars, ca_watched>>

NextCover ==
    \/ \E dt \in ClockSteps : TickCover(dt)
    \/ FetchNothing
    \/ \E m \in FetchInputs, took \in BOOLEAN, a \in SearchAnswers :
            Fetch(m, m = UnsetMedia, a, took)

SpecCover == InitCover /\ [][NextCover]_vars

\* A step that is a call of fetch for the watched media.
FetchOfWatched == ca_call'.n # ca_call.n /\ ca_call'.media = ca_watched

\* C4 as stated: once any fetch for a media has completed, every fetch for
\* it that starts less than 3600 seconds later returns the same outcome and
\* makes no request.
C4_AnyFetchPins ==
    [][ (FetchOfWatched /\ ca_last # None
            /\ now - ca_last[1].time < CACHE_TTL)
        => (ca_ret' = ca_last[1].url /\ ca_call'.requests = << >>) ]_vars

\* C4, amended: once a fetch for a media has run the metadata search (a
\* cache miss) and completed with any outcome, every fetch for it that starts
\* less than 3600 seconds after that completion returns the same outcome and
\* makes no request.
C4_ResolvedFetchPins ==
    [][ (FetchOfWatched /\ ca_resolved # None
            /\ now - ca_resolved[1].time < CACHE_TTL)
        => (ca_ret' = ca_resolved[1].url /\ ca_call'.requests = << >>) ]_vars

\* A hit on an entry in its last second, which a fetch of another media with
\* the same key has not replaced.
C4_Witness ==
    /\ ca_call.media = ca_watched
    /\ ca_call.kind = "hit"
    /\ ca_resolved # None
    /\ ca_call.start - ca_resolved[1].time = CACHE_TTL - 1
    /\ ca_ret = Some(CoverUrl("release-1"))
    /\ ca_ret = ca_resolved[1].url

TEXT_LIMIT == 128
ELLIPSIS == "..."

\* text[:n] for n >= 0
Prefix(text, n) == IF Len(text) <= n THEN text ELSE SubSeq(text, 1, n)

format_text_keep_limit(text, max_length) ==
    IF Len(text) > max_length
    THEN Prefix(text, max_length) \o ELLIPSIS
    ELSE text

format_text(text, max_length) ==
    IF Len(text) > max_length
    THEN Prefix(text, max_length - 3) \o ELLIPSIS
    ELSE text

\* The texts format_text is applied to: every length around the limit, over
\* three alphabets (one of them already ending in dots).
MaxTextLen == 132
TextInputs ==
    { Repeat(c, n) : c \in {"a", "."}, n \in 0..MaxTextLen }
        \cup { "Money" \o Repeat("b", n) : n \in 0..MaxTextLen }

InitText ==
    /\ now = 0
    /\ ScoreIdle
    /\ VideoIdle
    /\ SearchIdle
    /\ FuzzyIdle
    /\ ClientIdle
    /\ HandlerIdle
    /\ ReaderIdle
    /\ CoverIdle
    /\ ft_text \in TextInputs
    /\ ft_result = ""
    /\ ft_done = FALSE

FormatText ==
    /\ ~ft_done
    /\ ft_result' = format_text(ft_text, TEXT_LIMIT)
    /\ ft_done' = TRUE
    /\ UNCHANGED <<now, ft_text, scoreVars, videoVars, searchVars, fuzzyVars, client, readerVars, coverVars,
                   handlerVars>>

NextText == FormatText

SpecText == InitText /\ [][NextText]_vars

\* C3: format_text never returns more than 128 characters; a text of at most
\* 128 characters is returned unchanged, and a longer one is returned as its
\* first 125 characters followed by "...".
C3_FormatTextBounded ==
    ft_done =>
        /\ Len(ft_result) <= 128
        /\ (Len(ft_text) <= 128 => ft_result = ft_text)
        /\ (Len(ft_text) > 128 =>
                /\ Len(ft_result) = 128
                /\ SubSeq(ft_result, 1, 125) = SubSeq(ft_text, 1, 125)
                /\ SubSeq(ft_result, 126, 128) = "...")

C3_Witness ==
    ft_done /\ Len(ft_text) = 130 /\ ft_result = Repeat("a", 125) \o "..."

(***************************************************************************)
(* The presence sink, and what a cycle leaves behind for inspection         *)
(***************************************************************************)
LARGE_IMAGE == "logo"
PLAYING_IMAGE == "playing"
PAUSED_IMAGE == "paused"
DAY == 86400

\* A call on the sink, and whether it returned (ok) or raised.
SinkCall(op, ok) == [op |-> op, ok |-> ok]
SinkUpdate(args, ok) == args @@ [ok |-> ok]

\* The operations of the calls made, and the update calls among them.
Ops(calls) == [i \in DOMAIN calls |-> calls[i].op]
Updates(calls) == SelectSeq(calls, LAMBDA c : c.op = "update")

\* The record of a cycle.  n flips with every cycle; state is the code that
\* ran ("handler" or the MediaState class), status the snapshot it worked on,
\* time its current_time, connected whether the client was connected when it
\* began, stopped whether it found the player not active.
Cycle(state, read, extrapolated, status, stopped, ret) ==
    [n |-> 1 - cycle.n, state |-> state, read |-> read,
     extrapolated |-> extrapolated, status |-> status, time |-> now,
     connected |-> connected, stopped |-> stopped, ret |-> ret]

\* The clock at the start of the run.
START_TIME == 1000

\* The clock moves on by a second.
ClockTick ==
    /\ variant # "none"
    /\ ticks < MaxTicks
    /\ ticks' = ticks + 1
    /\ now' = now + 1
    /\ UNCHANGED <<textVars, scoreVars, videoVars, searchVars, fuzzyVars, client, readerVars, handlerVars, cache, ca_ret, ca_call,
                   ca_watched, ca_last, ca_resolved>>

(***************************************************************************)
(* discord_handler.py: VLCDiscordRP                                         *)
(***************************************************************************)
\* A status as the Lua script writes it to the file.  A key that is absent
\* is None.
Playback(position, duration) ==
    [position |-> position, duration |-> duration, remaining |-> None]

FileStatus(active, status, title, artist, album, position, duration) ==
    [active |-> active, status |-> status,
     media |-> MediaDict(artist, album, title),
     playback |-> Playback(position, duration)]

MoneySnapshot ==
    FileStatus(Some(TRUE), Some("playing"), Some("Money"), Some("Pink Floyd"),
               Some("The Dark Side of the Moon"), Some(30), Some(300))

FileStatuses ==
    { MoneySnapshot,
      FileStatus(Some(TRUE), Some("playing"), Some("clip"), None, None,
                 Some(2), Some(3)),
      FileStatus(Some(TRUE), Some("playing"), Some("stream"), None, None,
                 Some(5), Some(0)) @@ [media_type |-> Some("audio")],
      FileStatus(Some(TRUE), Some("playing"), Some("clip"), None, None,
                 None, Some(300)),
      FileStatus(Some(TRUE), Some("playing"), None, None, Some("Live"),
                 Some(5), Some(DAY)),
      FileStatus(Some(TRUE), Some("paused"), Some("Money"), Some("Pink Floyd"),
                 None, Some(30), Some(300)),
      FileStatus(Some(TRUE), Some("stopped"), Some("Money"), None, None,
                 Some(0), Some(300)),
      FileStatus(Some(TRUE), Some("idle"), None, None, None, None, None),
      FileStatus(Some(FALSE), Some("stopped"), None, None, None, None, None) }

\* What the file may hold: a status, or text that is not JSON.
FileContents ==
    FileStatuses \cup { [json |-> "invalid"] }

\* Python's truth value of what read_status returns
Truthy(status) == status # None /\ status # EmptyDict

\* read_status that leaves last_file_mod_time alone when the JSON is invalid
read_status_retry(f, last_mod) ==
    IF ~f.exists THEN <<None, last_mod>>
    ELSE IF f.mtime <= last_mod THEN <<None, last_mod>>
    ELSE IF f.content = [json |-> "invalid"] THEN <<None, last_mod>>
    ELSE <<f.content, f.mtime>>

\* read_status: <<the status or None, the new last_file_mod_time>>
read_status_again(f, last_mod) ==
    IF ~f.exists THEN <<None, last_mod>>
    ELSE IF f.content = [json |-> "invalid"] THEN <<None, f.mtime>>
    ELSE <<f.content, f.mtime>>

read_status(f, last_mod) ==
    IF ~f.exists THEN <<None, last_mod>>
    ELSE IF f.mtime <= last_mod THEN <<None, last_mod>>
    ELSE IF f.content = [json |-> "invalid"] THEN <<None, f.mtime>>
    ELSE <<f.content, f.mtime>>


\* discord_handler.py:122-123
clamp_none(position, duration) == position

clamp(position, duration) ==
    IF position > duration THEN duration ELSE position

\* discord_handler.py:116-131: the status with its position moved on by
\* elapsed seconds
extrapolate_double(status, elapsed) ==
    LET playback == status.playback
        duration == Get(playback.duration, 0)
        position == clamp(Get(playback.position, 0) + 2 * elapsed, duration)
    IN  [status EXCEPT !.playback =
            [position |-> Some(position), duration |-> playback.duration,
             remaining |-> Some(Max(0, duration - position))]]

extrapolate(status, elapsed) ==
    LET playback == status.playback
        duration == Get(playback.duration, 0)
        position == clamp(Get(playback.position, 0) + elapsed, duration)
    IN  [status EXCEPT !.playback =
            [position |-> Some(position), duration |-> playback.duration,
             remaining |-> Some(Max(0, duration - position))]]

\* the inline truncation of discord_handler.py:161-162 and 183-184
truncate(text) ==
    IF Len(text) > 128 THEN Prefix(text, 125) \o "..." ELSE text

\* discord_handler.py:146
is_inactive_idle_only(status) == Get(status.status, "") = "idle"

is_inactive(status) ==
    ~Get(status.active, FALSE) \/ Get(status.status, "") = "idle"

\* discord_handler.py:186-198: <<start_timestamp, end_timestamp>>
timestamps_from_now(playback, current_status, current_time) ==
    IF playback.position # None /\ Get(playback.duration, 0) > 0
          /\ current_status = "playing"
    THEN <<Some(current_time), Some(current_time + playback.duration[1])>>
    ELSE <<None, None>>

timestamps_no_day_limit(playback, current_status, current_time) ==
    IF playback.position # None /\ Get(playback.duration, 0) > 0
          /\ current_status = "playing"
    THEN LET start == current_time - playback.position[1]
         IN  <<Some(start), Some(start + playback.duration[1])>>
    ELSE <<None, None>>

timestamps(playback, current_status, current_time) ==
    IF playback.position # None /\ Get(playback.duration, 0) > 0
          /\ current_status = "playing"
    THEN LET start == current_time - playback.position[1]
             duration == playback.duration[1]
         IN  <<Some(start),
               IF 0 < duration /\ duration < DAY THEN Some(start + duration)
               ELSE None>>
    ELSE <<None, None>>

\* discord_handler.py:217-218
sent_timestamp(current_status, timestamp) ==
    IF current_status = "playing" THEN timestamp ELSE None

\* discord_handler.py:156-220: the arguments of rpc.update
handler_update(status, current_time) ==
    LET media == status.media
        playback == status.playback
        current_status == Get(status.status, "idle")
        is_likely_audio == TruthyText(media.artist) \/ TruthyText(media.album)
        activity_type == IF is_likely_audio THEN "listening" ELSE "watching"
        state ==
            IF TruthyText(media.artist)
            THEN "by " \o media.artist[1]
                    \o (IF TruthyText(media.album)
                        THEN " " \o Mojibake \o " " \o media.album[1]
                        ELSE "")
            ELSE IF TruthyText(media.album) THEN "from " \o media.album[1]
            ELSE IF current_status = "playing" THEN "Now playing"
            ELSE "Paused"
        ts == timestamps(playback, current_status, current_time)
    IN  [op |-> "update",
         details |-> truncate(Get(media.title, "Unknown")),
         state |-> truncate(state),
         large_image |-> Some(LARGE_IMAGE),
         large_text |-> Some("VLC Media Player"),
         small_image |-> IF current_status = "paused" THEN Some(PAUSED_IMAGE)
                         ELSE None,
         small_text |-> IF current_status = "paused" THEN "Paused"
                        ELSE "Playing",
         start |-> sent_timestamp(current_status, ts[1]),
         end |-> sent_timestamp(current_status, ts[2]),
         activity_type |-> activity_type]

\* The handler when run() enters its loop.
InitHandler ==
    /\ variant = "handler"
    /\ file = NoFile
    /\ last_status = EmptyDict
    /\ connected = FALSE
    /\ last_file_mod_time = 0
    /\ last_check_time = START_TIME
    /\ simulated_position = 0
    /\ last_position_update = 0
    /\ sink = << >>
    /\ cycle = NoCycle

\* The Lua script in VLC writes the status file; each write gives it a
\* later modification time.
MaxWrites == 2

WriteFile(content) ==
    /\ variant = "handler"
    /\ file.mtime < MaxWrites
    /\ file' = [exists |-> TRUE, mtime |-> file.mtime + 1, content |-> content]
    /\ UNCHANGED <<now, textVars, scoreVars, videoVars, searchVars, fuzzyVars, client, readerVars, coverVars, variant, last_status,
                   connected, last_file_mod_time, last_check_time,
                   simulated_position, last_position_update, sink, cycle,
                   run>>

\* update_presence.  connect_ok and call_ok say whether a connect() and a
\* clear()/update() on the sink would succeed.
update_presence(connect_ok, call_ok) ==
    LET rd == read_status(file, last_file_mod_time)
        current_time == now
        extrapolating ==
            /\ ~Truthy(rd[1])
            /\ last_status # EmptyDict
            /\ Get(last_status.active, FALSE)
        elapsed == current_time - last_check_time
        extrapolated ==
            /\ extrapolating
            /\ Get(last_status.status, "") = "playing"
            /\ last_status.playback.position # None
        last1 == IF extrapolated THEN extrapolate(last_status, elapsed)
                 ELSE last_status
        status == IF extrapolated THEN last1 ELSE rd[1]
        stopped ==
            IF Truthy(status) THEN ~Get(status.active, FALSE)
            ELSE last_status # EmptyDict /\ ~Get(last_status.active, FALSE)
        Done(ret, calls) ==
            /\ sink' = calls
            /\ cycle' = Cycle("handler",
                              IF rd[1] = None THEN "none" ELSE "status",
                              extrapolated,
                              IF Truthy(status) THEN Some(status) ELSE None,
                              stopped, ret)
    IN
    /\ variant = "handler"
    /\ last_file_mod_time' = rd[2]
    /\ IF ~Truthy(status)
       THEN /\ last_check_time' = IF extrapolating THEN current_time
                                  ELSE last_check_time
            /\ last_status' = last1
            /\ Done(FALSE, << >>)
            /\ UNCHANGED <<connected, simulated_position, last_position_update>>
       ELSE /\ last_check_time' = current_time
            /\ last_status' = status
            /\ IF status # last1 /\ status.playback.position # None
               THEN /\ simulated_position' = status.playback.position[1]
                    /\ last_position_update' = current_time
               ELSE /\ simulated_position' =
                          IF extrapolated THEN status.playback.position[1]
                          ELSE simulated_position
                    /\ UNCHANGED last_position_update
            /\ IF is_inactive(status)
               THEN IF connected
                    THEN /\ connected' = call_ok
                         /\ Done(TRUE, <<SinkCall("clear", call_ok)>>)
                    ELSE /\ UNCHANGED connected
                         /\ Done(TRUE, << >>)
               ELSE IF ~connected /\ ~connect_ok
                    THEN /\ connected' = FALSE
                         /\ Done(FALSE, <<SinkCall("connect", FALSE)>>)
                    ELSE /\ connected' = call_ok
                         /\ Done(call_ok,
                                 (IF connected THEN << >>
                                  ELSE <<SinkCall("connect", TRUE)>>)
                                 \o <<SinkUpdate(
                                        handler_update(status, current_time),
                                        call_ok)>>)
    /\ UNCHANGED <<now, textVars, scoreVars, videoVars, searchVars, fuzzyVars, client, readerVars, coverVars, variant, file>>

\* One call of update_presence, at any time.
UpdatePresence(connect_ok, call_ok) ==
    /\ run.pc = "none"
    /\ update_presence(connect_ok, call_ok)
    /\ UNCHANGED run

(***************************************************************************)
(* discord_client.py: DiscordRPCClient                                      *)
(***************************************************************************)
\* connect(): <<the calls made on the sink, connected afterwards, the result>>
client_connect(connect_ok) ==
    << <<SinkCall("connect", connect_ok)>>, connect_ok, connect_ok >>

\* update(...): the same triple.  args are the keyword arguments.
client_update(args, conn, connect_ok, call_ok) ==
    LET c == IF conn THEN << << >>, TRUE, TRUE >>
             ELSE client_connect(connect_ok)
        sent == [args EXCEPT
                    !.large_image = IF TruthyText(@) THEN @
                                    ELSE Some(LARGE_IMAGE),
                    !.large_text = IF TruthyText(@) THEN @
                                   ELSE Some("VLC Media Player")]
    IN  IF ~c[3] THEN <<c[1], FALSE, FALSE>>
        ELSE <<c[1] \o <<SinkUpdate(sent, call_ok)>>, call_ok, call_ok>>

\* clear() without the test of connected
client_clear_unguarded(conn, call_ok) ==
    << <<SinkCall("clear", call_ok)>>, conn /\ call_ok, call_ok >>

\* clear(): the same triple
client_clear(conn, call_ok) ==
    IF ~conn THEN << << >>, FALSE, FALSE >>
    ELSE << <<SinkCall("clear", call_ok)>>, call_ok, call_ok >>

\* close(): the same triple; close returns nothing, and when rpc.close()
\* raises, line 77 is skipped and connected stays True.
client_close(conn, call_ok) ==
    IF ~conn THEN << << >>, FALSE, FALSE >>
    ELSE << <<SinkCall("close", call_ok)>>, ~call_ok, FALSE >>

(***************************************************************************)
(* media_states.py: StoppedState, NoStatusState, PlayingState, PausedState  *)
(***************************************************************************)
\* The media_info a state is given.  playback and video_info are None when
\* the dict is absent or empty; every other absent key is None.
NoMetadata ==
    [show_name |-> None, season |-> None, episode |-> None,
     movie_name |-> None, year |-> None, anime_name |-> None]

StatePlayback(time, position, duration) ==
    Some([time |-> time, position |-> position, duration |-> duration])

MediaInfo(status, media, media_type, playback) ==
    [active |-> Some(TRUE), status |-> Some(status), media |-> media,
     media_type |-> media_type, content_type |-> None,
     content_metadata |-> NoMetadata, content_image_url |-> None,
     playback |-> playback, video_info |-> None]

MoneyMedia ==
    MediaDict(Some("Pink Floyd"), Some("The Dark Side of the Moon"),
              Some("Money"))

\* The snapshot with position:30 and duration:300 as it stands, and as
\* _convert_vlc_status yields it (media_type, time in seconds, position a
\* fraction here scaled to 0).
MoneyInfo ==
    MediaInfo("playing", MoneyMedia, None, StatePlayback(None, Some(30), Some(300)))

MoneyConverted ==
    MediaInfo("playing", MoneyMedia, Some("audio"),
              StatePlayback(Some(30), Some(0), Some(300)))

MediaInfos ==
    { MoneyInfo, MoneyConverted,
      [MediaInfo("playing", MediaDict(None, None, Some("clip")), Some("video"),
                 StatePlayback(Some(5), Some(0), Some(DAY)))
         EXCEPT !.video_info = Some([width |-> Some(1920),
                                     height |-> Some(1080)])],
      [MediaInfo("playing", MediaDict(None, None, Some("lost.s01e02.mkv")),
                 Some("video"), StatePlayback(Some(2), Some(0), Some(0)))
         EXCEPT !.content_type = Some("tv_show"),
                !.content_metadata = [NoMetadata EXCEPT
                                        !.show_name = Some("Lost"),
                                        !.season = Some(1),
                                        !.episode = Some(2)],
                !.content_image_url = Some("https://img/lost.png")],
      [MediaInfo("paused", MediaDict(None, None, None), Some("video"), None)
         EXCEPT !.content_type = Some("movie"),
                !.content_metadata = [NoMetadata EXCEPT
                                        !.movie_name = Some("Heat"),
                                        !.year = Some("1995")]],
      MediaInfo("paused", MediaDict(Some(""), Some(""), Some("Money")),
                Some("audio"), StatePlayback(Some(-1), Some(0), Some(300))) }

\* bool(media): a dict with no key is falsy
DictEmpty(d) == \A k \in DOMAIN d : d[k] = None

\* media_states.py:63-106 and 183-226: <<details, state>>; idle_state is
\* "Now watching" in PlayingState and "Paused" in PausedState
details_and_state(media_info, idle_state) ==
    LET media == media_info.media
        content_type == Get(media_info.content_type, "")
        md == media_info.content_metadata
        season == Get(md.season, 0)
        episode == Get(md.episode, 0)
        ds ==
            IF content_type = "tv_show" /\ TruthyText(md.show_name)
            THEN << IF season > 0 /\ episode > 0
                    THEN md.show_name[1] \o " S" \o fmt02d(season)
                            \o "E" \o fmt02d(episode)
                    ELSE md.show_name[1],
                    idle_state >>
            ELSE IF content_type = "movie" /\ TruthyText(md.movie_name)
            THEN << IF TruthyText(md.year)
                    THEN md.movie_name[1] \o " (" \o md.year[1] \o ")"
                    ELSE md.movie_name[1],
                    idle_state >>
            ELSE IF content_type = "anime" /\ TruthyText(md.anime_name)
            THEN << IF episode > 0
                    THEN md.anime_name[1] \o " - Episode " \o str(episode)
                    ELSE md.anime_name[1],
                    IF idle_state = "Paused" THEN "Paused"
                    ELSE "Now watching anime" >>
            ELSE << Get(media.title, "Unknown"),
                    IF media_info.media_type = Some("audio")
                    THEN "by " \o Get(media.artist, "Unknown Artist")
                    ELSE idle_state >>
    IN  << format_text(ds[1], TEXT_LIMIT), format_text(ds[2], TEXT_LIMIT) >>

\* media_states.py:108-123: <<start_timestamp, end_timestamp>>
playing_timestamps(playback, current_time) ==
    IF playback = None THEN <<None, None>>
    ELSE LET duration == Get(playback[1].duration, 0)
             position == Get(playback[1].time, 0)
         IN  IF position >= 0 /\ duration > 0 /\ duration < DAY
             THEN << Some(current_time - position),
                     Some(current_time + (duration - position)) >>
             ELSE << Some(current_time), None >>

\* media_states.py:140-143 and 236-239: what is appended to small_text
resolution_text(media_info) ==
    LET v == media_info.video_info IN
    IF media_info.media_type = Some("video") /\ v # None
          /\ Get(v[1].width, 0) # 0 /\ Get(v[1].height, 0) # 0
    THEN " " \o Bullet \o " " \o str(v[1].width[1]) \o "x"
            \o str(v[1].height[1])
    ELSE ""

\* media_states.py:129-131 and 145-149: large_image.  A CoverArt made for
\* this call has an empty cache, so its fetch runs the search; answer is what
\* the recordings search gets.
large_image_of(media_info, answer) ==
    LET content_image == media_info.content_image_url
        cover_art_url ==
            IF ~TruthyText(content_image) /\ ~DictEmpty(media_info.media)
            THEN fetch_from_musicbrainz(media_info.media,
                                        <<Best, answer, Best>>)[2]
            ELSE None
    IN  IF TruthyText(content_image) THEN content_image
        ELSE IF TruthyText(cover_art_url) THEN cover_art_url
        ELSE Some(LARGE_IMAGE)

\* media_states.py:145-147: the search requests of the call's own CoverArt,
\* or None when the call makes no CoverArt
cover_requests(media_info, answer) ==
    IF ~TruthyText(media_info.content_image_url)
          /\ ~DictEmpty(media_info.media)
    THEN Some(fetch_from_musicbrainz(media_info.media,
                                     <<Best, answer, Best>>)[1])
    ELSE None

\* media_states.py:133-138
large_text_of(media_info) ==
    LET content_type == Get(media_info.content_type, "") IN
    IF content_type = "tv_show" THEN "Watching TV Show"
    ELSE IF content_type = "movie" THEN "Watching a Movie"
    ELSE IF content_type = "anime" THEN "Watching Anime"
    ELSE "VLC Media Player"

activity_type_of(media_info) ==
    IF media_info.media_type = Some("audio") THEN "listening" ELSE "watching"

\* PlayingState.update_presence: the arguments of discord_client.update
playing_presence(media_info, answer) ==
    LET ds == details_and_state(media_info, "Now watching")
        ts == playing_timestamps(media_info.playback, now)
    IN  [op |-> "update", details |-> ds[1], state |-> ds[2],
         large_image |-> large_image_of(media_info, answer),
         large_text |-> Some(large_text_of(media_info)),
         small_image |-> Some(PLAYING_IMAGE),
         small_text |-> PLAYING_IMAGE \o resolution_text(media_info),
         start |-> ts[1], end |-> ts[2],
         activity_type |-> activity_type_of(media_info)]

\* PausedState.update_presence: the arguments of discord_client.update
paused_presence_timed(media_info, answer) ==
    [playing_presence(media_info, answer) EXCEPT
        !.small_image = Some(PAUSED_IMAGE)]

paused_presence(media_info, answer) ==
    LET ds == details_and_state(media_info, "Paused") IN
    [op |-> "update", details |-> ds[1], state |-> ds[2],
     large_image |-> large_image_of(media_info, answer),
     large_text |-> Some("VLC Media Player (Paused)"),
     small_image |-> Some(PAUSED_IMAGE),
     small_text |-> "Paused" \o resolution_text(media_info),
     start |-> None, end |-> None,
     activity_type |-> activity_type_of(media_info)]

\* The states and their client after construction.
InitStates ==
    /\ variant = "states"
    /\ file = NoFile
    /\ last_status = EmptyDict
    /\ connected = FALSE
    /\ last_file_mod_time = 0
    /\ last_check_time = 0
    /\ simulated_position = 0
    /\ last_position_update = 0
    /\ sink = << >>
    /\ cycle = NoCycle

\* What a call of a state's update_presence leaves: r is the triple of the
\* client method it called.
StateDone(state, status, r, requests) ==
    /\ sink' = r[1]
    /\ connected' = r[2]
    /\ cycle' = Cycle(state, IF status = None THEN "none" ELSE "status",
                      FALSE, status, state = "Stopped", r[3])
    /\ ca_call' = IF requests = None THEN ca_call
                  ELSE FetchRecord(status[1].media, "miss", requests[1])
    /\ UNCHANGED <<now, textVars, scoreVars, videoVars, searchVars, fuzzyVars, client, readerVars, ticks, cache, ca_ret,
                   ca_watched, ca_last, ca_resolved, variant, file,
                   last_status, last_file_mod_time, last_check_time,
                   simulated_position, last_position_update, run>>

NotCalled == << << >>, connected, FALSE >>

\* StoppedState.update_presence(media_info)
StoppedUpdate(call_ok) ==
    /\ variant = "states"
    /\ StateDone("Stopped", None, client_clear(connected, call_ok), None)

\* NoStatusState.update_presence(media_info)
NoStatusUpdate(call_ok) ==
    /\ variant = "states"
    /\ StateDone("NoStatus", None, client_clear(connected, call_ok), None)

\* PlayingState.update_presence(media_info); info is None for a media_info
\* that is None or empty.  tracked says whether the requests of the call's
\* CoverArt are recorded in ca_call.
PlayingCall(info, answer, connect_ok, call_ok, tracked) ==
    /\ variant = "states"
    /\ StateDone("Playing", info,
                 IF info = None THEN NotCalled
                 ELSE client_update(playing_presence(info[1], answer),
                                    connected, connect_ok, call_ok),
                 IF info = None \/ ~tracked THEN None
                 ELSE cover_requests(info[1], answer))

PlayingUpdate(info, answer, connect_ok, call_ok) ==
    PlayingCall(info, answer, connect_ok, call_ok, FALSE)

\* PausedState.update_presence(media_info)
PausedCall(info, answer, connect_ok, call_ok, tracked) ==
    /\ variant = "states"
    /\ StateDone("Paused", info,
                 IF info = None THEN NotCalled
                 ELSE client_update(paused_presence(info[1], answer),
                                    connected, connect_ok, call_ok),
                 IF info = None \/ ~tracked THEN None
                 ELSE cover_requests(info[1], answer))

PausedUpdate(info, answer, connect_ok, call_ok) ==
    PausedCall(info, answer, connect_ok, call_ok, FALSE)

StateInputs == { Some(i) : i \in MediaInfos } \cup {None}

(***************************************************************************)
(* Presence: either program, from its start                                 *)
(***************************************************************************)
Init ==
    /\ now = START_TIME
    /\ TextIdle
    /\ ScoreIdle
    /\ VideoIdle
    /\ SearchIdle
    /\ FuzzyIdle
    /\ ClientIdle
    /\ ReaderIdle
    /\ CoverIdle
    /\ (InitHandler \/ InitStates)
    /\ run = NoRun

Next ==
    \/ ClockTick
    \/ \E c \in FileContents : WriteFile(c)
    \/ \E connect_ok \in BOOLEAN, call_ok \in BOOLEAN :
            UpdatePresence(connect_ok, call_ok)
    \/ \E call_ok \in BOOLEAN : StoppedUpdate(call_ok)
    \/ \E call_ok \in BOOLEAN : NoStatusUpdate(call_ok)
    \/ \E i \in StateInputs, a \in SearchAnswers,
          connect_ok \in BOOLEAN, call_ok \in BOOLEAN :
            PlayingUpdate(i, a, connect_ok, call_ok)
    \/ \E i \in StateInputs, a \in SearchAnswers,
          connect_ok \in BOOLEAN, call_ok \in BOOLEAN :
            PausedUpdate(i, a, connect_ok, call_ok)

Spec == Init /\ [][Next]_vars

(***************************************************************************)
(* media_states.py: successive calls of the states and their cover art      *)
(***************************************************************************)
\* The media_info of the calls: audio with and without tags, and a video
\* with a content image.
\* A special episode, as _detect_content_type classifies "Lost.S00E05.mkv".
SpecialInfo ==
    [MediaInfo("playing", MediaDict(None, None, Some("Lost.S00E05.mkv")),
               Some("video"), StatePlayback(Some(2), Some(0), Some(0)))
        EXCEPT !.content_type = Some("tv_show"),
               !.content_metadata = [NoMetadata EXCEPT
                                        !.show_name = Some("Lost"),
                                        !.season = Some(0),
                                        !.episode = Some(5)]]

ArtInputs ==
    { i \in MediaInfos :
        \/ i.media_type = Some("audio")
        \/ i.content_image_url # None }
    \cup {SpecialInfo}

InitArt ==
    /\ now = START_TIME
    /\ TextIdle
    /\ ScoreIdle
    /\ VideoIdle
    /\ SearchIdle
    /\ FuzzyIdle
    /\ ClientIdle
    /\ ReaderIdle
    /\ CoverIdle
    /\ InitStates
    /\ run = NoRun

\* PlayingState.update_presence and PausedState.update_presence, with the
\* search requests of the call recorded.
PlayingTracked(info, answer, connect_ok, call_ok) ==
    PlayingCall(Some(info), answer, connect_ok, call_ok, TRUE)

PausedTracked(info, answer, connect_ok, call_ok) ==
    PausedCall(Some(info), answer, connect_ok, call_ok, TRUE)

NextArt ==
    \/ ClockTick
    \/ \E i \in ArtInputs, a \in SearchAnswers,
          connect_ok \in BOOLEAN, call_ok \in BOOLEAN :
            PlayingTracked(i, a, connect_ok, call_ok)
    \/ \E i \in ArtInputs, a \in SearchAnswers,
          connect_ok \in BOOLEAN, call_ok \in BOOLEAN :
            PausedTracked(i, a, connect_ok, call_ok)

SpecArt == InitArt /\ [][NextArt]_vars

(***************************************************************************)
(* discord_handler.py: VLCDiscordRP.run, the main loop                      *)
(***************************************************************************)
\* time.sleep(1) after a cycle, time.sleep(5) after an unexpected error
SLEEP_SECONDS == 1
BACKOFF_SECONDS == 5

\* How long the run is followed, in seconds.
MaxRunTime == 7


\* What the file holds during a run: a playing, a paused and a not active
\* status, and the content that is not an object.
RunContents ==
    { MoneySnapshot,
      FileStatus(Some(TRUE), Some("paused"), Some("Money"), Some("Pink Floyd"),
                 None, Some(30), Some(300)),
      FileStatus(Some(FALSE), Some("stopped"), None, None, None, None, None),
      NotADict }

\* update_presence raises AttributeError outside its own try block: at line
\* 141 for a status that is not a dict, at line 112 when no status was read
\* and last_status is not a dict.
update_presence_raises(status, last) ==
    IF Truthy(status) THEN status = NotADict ELSE last = NotADict

\* Where run() goes when a cycle (update_presence and the sleep after it)
\* ends: "returned" normally, "raised" an Exception, or "interrupt" for a
\* KeyboardInterrupt.
after_cycle_stops(outcome) ==
    IF outcome = "returned" THEN "cycle" ELSE "cleanup"

after_cycle(outcome) ==
    CASE outcome = "returned" -> "cycle"
      [] outcome = "raised" -> "backoff"
      [] outcome = "interrupt" -> "cleanup"

\* run() after its first statement, about to enter the loop.
InitRun ==
    /\ now = START_TIME
    /\ TextIdle
    /\ ScoreIdle
    /\ VideoIdle
    /\ SearchIdle
    /\ FuzzyIdle
    /\ ClientIdle
    /\ ReaderIdle
    /\ CoverIdle
    /\ InitHandler
    /\ run = [pc |-> "cycle", outcome |-> "none", received |-> 0,
              backoffs |-> 0]

\* Line 241: a call of update_presence that returns; then run() is in
\* time.sleep(1).
RunCycle(connect_ok, call_ok) ==
    LET rd == read_status(file, last_file_mod_time) IN
    /\ run.pc = "cycle"
    /\ ~update_presence_raises(rd[1], last_status)
    /\ update_presence(connect_ok, call_ok)
    /\ run' = [run EXCEPT !.pc = "sleep", !.outcome = "returned",
                          !.received = IF Truthy(rd[1]) THEN now ELSE @]

\* Line 241: a call of update_presence that raises; run() logs the error
\* and is in time.sleep(5).
RunCycleRaises ==
    LET rd == read_status(file, last_file_mod_time) IN
    /\ run.pc = "cycle"
    /\ update_presence_raises(rd[1], last_status)
    /\ last_file_mod_time' = rd[2]
    /\ IF Truthy(rd[1])
       THEN /\ last_check_time' = now
            /\ last_status' = rd[1]
       ELSE UNCHANGED <<last_check_time, last_status>>
    /\ sink' = << >>
    /\ cycle' = Cycle("handler", IF rd[1] = None THEN "none" ELSE "status",
                      FALSE, None, FALSE, FALSE)
    /\ run' = [run EXCEPT !.pc = after_cycle("raised"), !.outcome = "raised"]
    /\ UNCHANGED <<now, textVars, scoreVars, videoVars, searchVars, fuzzyVars, client, readerVars, coverVars, variant, file,
                   connected, simulated_position, last_position_update>>

\* Line 242: time.sleep(1) ends.
Sleep ==
    /\ run.pc = "sleep"
    /\ now + SLEEP_SECONDS <= START_TIME + MaxRunTime
    /\ now' = now + SLEEP_SECONDS
    /\ run' = [run EXCEPT !.pc = after_cycle("returned")]
    /\ UNCHANGED <<textVars, scoreVars, videoVars, searchVars, fuzzyVars, client, readerVars, coverVars, variant, file, last_status,
                   connected, last_file_mod_time, last_check_time,
                   simulated_position, last_position_update, sink, cycle>>

\* Line 248: time.sleep(5) ends and the loop goes on.
Backoff ==
    /\ run.pc = "backoff"
    /\ now + BACKOFF_SECONDS <= START_TIME + MaxRunTime
    /\ now' = now + BACKOFF_SECONDS
    /\ run' = [run EXCEPT !.pc = "cycle", !.backoffs = @ + 1]
    /\ UNCHANGED <<textVars, scoreVars, videoVars, searchVars, fuzzyVars, client, readerVars, coverVars, variant, file, last_status,
                   connected, last_file_mod_time, last_check_time,
                   simulated_position, last_position_update, sink, cycle>>

\* The user presses Ctrl-C.  Inside the try block of lines 240-242 the
\* KeyboardInterrupt is caught and the loop left (lines 243-245); inside the
\* handler of lines 246-248 no except clause covers it and it leaves run().
Interrupt ==
    /\ run.pc \in {"cycle", "sleep", "backoff"}
    /\ run' = [run EXCEPT
                 !.pc = IF run.pc = "backoff" THEN "escaped"
                        ELSE after_cycle("interrupt")]
    /\ UNCHANGED <<now, textVars, scoreVars, videoVars, searchVars, fuzzyVars, client, readerVars, coverVars, variant, file,
                   last_status, connected, last_file_mod_time, last_check_time,
                   simulated_position, last_position_update, sink, cycle>>

\* Lines 250-255: the calls made on the sink after the loop
cleanup(conn, clear_ok, close_ok) ==
    IF ~conn THEN << >>
    ELSE IF ~clear_ok THEN <<SinkCall("clear", FALSE)>>
    ELSE <<SinkCall("clear", TRUE), SinkCall("close", close_ok)>>

\* Lines 250-257: run() cleans up and returns.
Cleanup(clear_ok, close_ok) ==
    /\ run.pc = "cleanup"
    /\ sink' = cleanup(connected, clear_ok, close_ok)
    /\ run' = [run EXCEPT !.pc = "returned"]
    /\ UNCHANGED <<now, textVars, scoreVars, videoVars, searchVars, fuzzyVars, client, readerVars, coverVars, variant, file,
                   last_status, connected, last_file_mod_time, last_check_time,
                   simulated_position, last_position_update, cycle>>

NextRun ==
    \/ \E c \in RunContents : WriteFile(c)
    \/ \E connect_ok \in BOOLEAN, call_ok \in BOOLEAN :
            RunCycle(connect_ok, call_ok)
    \/ RunCycleRaises
    \/ Sleep
    \/ Backoff
    \/ Interrupt
    \/ \E clear_ok \in BOOLEAN, close_ok \in BOOLEAN :
            Cleanup(clear_ok, close_ok)

SpecRun == InitRun /\ [][NextRun]_vars

(***************************************************************************)
(* audio.py: calls of CoverArt._calculate_release_score                     *)
(***************************************************************************)
\* The arguments the function is called with: recording None is the call of
\* _process_release_response (line 245), a recording that of
\* _process_recording_response (line 194).
ScoreRecordings ==
    { None,
      Recording(None, None),
      Recording(Some(0), Some("Money (Live)")),
      Recording(Some(100), Some("Money")) }

ScoreCredits ==
    { << >>,
      <<Credit(Some("Pink Floyd"), << >>)>>,
      <<NotADict, Credit(Some("AC/DC"), <<"Acca Dacca">>)>>,
      <<Credit(Some("The Pink Floyd Band"), << >>)>> }

ScoreReleases ==
    { Release(score, Some("The Dark Side of the Moon"), credit,
              Some("1973-03-01"), status, types[1], types[2]) :
        score \in {None, Some(90)},
        credit \in ScoreCredits,
        status \in {None, Some("Official")},
        types \in { <<None, FALSE>>, <<None, TRUE>>,
                    <<Some(<<"Live">>), TRUE>>,
                    <<Some(<<"Compilation", "Live", "Remix">>), FALSE>> } }

ScoreMedias ==
    { ScoreMedia(artist, album, Some("Money"), None, year) :
        artist \in {None, Some("Pink Floyd"), Some("pink floyd"),
                    Some("AC/DC"), Some("Floyd")},
        album \in {None, Some("Dark Side of the Moon")},
        year \in {None, Some(1973)} }

\* A call about to be made.
InitScore ==
    /\ now = 0
    /\ TextIdle
    /\ VideoIdle
    /\ SearchIdle
    /\ FuzzyIdle
    /\ ClientIdle
    /\ HandlerIdle
    /\ ReaderIdle
    /\ CoverIdle
    /\ \E recording \in ScoreRecordings, release \in ScoreReleases,
          media \in ScoreMedias :
            sc_call = [recording |-> recording, release |-> release,
                       media |-> media, done |-> FALSE]
    /\ sc_ret = NoScore

CalculateReleaseScore ==
    /\ sc_call # None
    /\ ~sc_call.done
    /\ sc_ret' = calculate_release_score(sc_call.recording, sc_call.release,
                                         sc_call.media)
    /\ sc_call' = [sc_call EXCEPT !.done = TRUE]
    /\ UNCHANGED <<now, textVars, videoVars, searchVars, fuzzyVars, client, readerVars, coverVars, handlerVars>>

NextScore == CalculateReleaseScore

SpecScore == InitScore /\ [][NextScore]_vars

\* C2: after a cycle of VLCDiscordRP.update_presence that extrapolated the
\* playback position, the stored position is not greater than the duration,
\* and the stored remaining equals duration - position and is not negative.
C2_ExtrapolatedWithinDuration ==
    (cycle.state = "handler" /\ cycle.extrapolated) =>
        LET playback == last_status.playback
            duration == Get(playback.duration, 0)
        IN  /\ playback.position # None
            /\ playback.position[1] <= duration
            /\ playback.remaining = Some(duration - playback.position[1])
            /\ playback.remaining[1] >= 0
            /\ simulated_position = playback.position[1]

\* A position read as 2 of 3 seconds, extrapolated two seconds or more later.
C2_Witness ==
    /\ cycle.state = "handler"
    /\ cycle.extrapolated
    /\ cycle.time - last_position_update >= 2
    /\ last_status.media.title = Some("clip")
    /\ last_status.playback =
            [position |-> Some(3), duration |-> Some(3), remaining |-> Some(0)]

\* C6 as stated: a cycle that processes a snapshot that is not active sends
\* the sink exactly one clear(), and a cycle that finds the stopped condition
\* of the cycle before it still holding sends the sink nothing.
C6_OneClearThenSilence ==
    [][ (cycle'.n # cycle.n /\ cycle'.stopped) =>
            IF cycle.stopped THEN sink' = << >>
            ELSE (cycle'.state = "Stopped" \/ cycle'.status # None)
                    => Ops(sink') = <<"clear">> ]_vars

\* C6, amended: a cycle that processes a snapshot that is not active (the
\* handler reading it from the file, or any call of
\* StoppedState.update_presence) sends the sink exactly one clear() and no
\* update when the client is connected, and nothing when it is not; a handler
\* cycle that reads no new snapshot while the player is not active sends
\* nothing.
C6_ClearWhenConnected ==
    [][ (cycle'.n # cycle.n /\ cycle'.stopped) =>
            Ops(sink') =
                IF connected /\ (cycle'.state = "Stopped" \/ cycle'.status # None)
                THEN <<"clear">> ELSE << >> ]_vars

\* The handler, connected by an earlier update, has read a snapshot that is
\* not active and cleared the presence.
C6_Witness ==
    /\ cycle.state = "handler"
    /\ cycle.stopped
    /\ cycle.status # None
    /\ cycle.connected
    /\ sink = <<SinkCall("clear", TRUE)>>

\* C7: a cycle at now = 1000 on the snapshot playing "Money" by "Pink Floyd"
\* from "The Dark Side of the Moon" at position 30 of 300 sends the sink one
\* update, with activity_type listening, details "Money", state
\* "by Pink Floyd (bullet) The Dark Side of the Moon", start 970 and end 1270.
C7_MoneyPresence ==
    ( /\ cycle.time = 1000
      /\ cycle.read = "status"
      /\ \/ cycle.state = "handler" /\ cycle.status = Some(MoneySnapshot)
         \/ cycle.state = "Playing" /\ cycle.status = Some(MoneyConverted)
      /\ Updates(sink) # << >> )
    => /\ Len(Updates(sink)) = 1
       /\ LET u == Updates(sink)[1] IN
          /\ u.activity_type = "listening"
          /\ u.details = "Money"
          /\ u.state = "by Pink Floyd " \o Bullet \o " The Dark Side of the Moon"
          /\ u.start = Some(970)
          /\ u.end = Some(1270)

\* C8 as stated: every update sent for a playing snapshot carries
\* start = now - position whatever the duration, and an end exactly when
\* 0 < duration < 86400, which then is start + duration.
C8_StartForEveryDuration ==
    \A i \in DOMAIN sink :
        LET u == sink[i]
            handler == cycle.state = "handler"
            playback == IF handler THEN Some(cycle.status[1].playback)
                        ELSE cycle.status[1].playback
            position == IF handler THEN playback[1].position
                        ELSE playback[1].time
            duration == Get(playback[1].duration, 0)
        IN  ( /\ u.op = "update"
              /\ \/ handler /\ cycle.status[1].status = Some("playing")
                 \/ cycle.state = "Playing"
              /\ playback # None
              /\ position # None )
            => /\ u.start = Some(cycle.time - position[1])
               /\ u.end # None <=> (0 < duration /\ duration < DAY)
               /\ u.end # None => u.end = Some(u.start[1] + duration)

\* C8, amended: an update sent for a playing snapshot carries an end exactly
\* when the position is known and not negative and 0 < duration < 86400, and
\* then start = now - position and end = start + duration.  Without an end,
\* the handler sends start = now - position when the position is known and
\* the duration is 86400 or more and no start otherwise, and PlayingState
\* sends start = now, or no start when the snapshot has no playback section.
C8_TimestampsWhenKnown ==
    \A i \in DOMAIN sink :
        LET u == sink[i]
            t == cycle.time
        IN  /\ ( /\ u.op = "update"
                 /\ cycle.state = "handler"
                 /\ cycle.status[1].status = Some("playing") )
               => LET playback == cycle.status[1].playback
                      duration == Get(playback.duration, 0)
                  IN  IF playback.position # None /\ duration > 0
                      THEN /\ u.start = Some(t - playback.position[1])
                           /\ u.end = IF duration < DAY
                                      THEN Some(u.start[1] + duration)
                                      ELSE None
                      ELSE u.start = None /\ u.end = None
            /\ (u.op = "update" /\ cycle.state = "Playing")
               => LET playback == cycle.status[1].playback
                      duration == Get(playback[1].duration, 0)
                      position == Get(playback[1].time, 0)
                  IN  IF playback = None THEN u.start = None /\ u.end = None
                      ELSE IF position >= 0 /\ 0 < duration /\ duration < DAY
                      THEN /\ u.start = Some(t - position)
                           /\ u.end = Some(u.start[1] + duration)
                      ELSE u.start = Some(t) /\ u.end = None

\* The handler has sent an update for a snapshot playing at position 5 of a
\* whole day: a start and no end.
C8_Witness ==
    /\ cycle.state = "handler"
    /\ cycle.status # None
    /\ cycle.status[1].playback.duration = Some(DAY)
    /\ Updates(sink) # << >>
    /\ Updates(sink)[1].start = Some(cycle.time - 5)
    /\ Updates(sink)[1].end = None

\* C9: every update sent for a paused snapshot, by PausedState or by the
\* handler, has neither start nor end, whatever its position and duration.
C9_PausedNoTimestamps ==
    \A i \in DOMAIN sink :
        ( /\ sink[i].op = "update"
          /\ \/ cycle.state = "Paused"
             \/ cycle.state = "handler"
                    /\ cycle.status[1].status = Some("paused") )
        => sink[i].start = None /\ sink[i].end = None

\* PausedState has sent an update for a snapshot at second 30 of 300.
C9_Witness ==
    /\ cycle.state = "Paused"
    /\ cycle.status = Some(MoneyConverted)
    /\ Updates(sink) # << >>
    /\ Updates(sink)[1].start = None
    /\ Updates(sink)[1].small_image = Some(PAUSED_IMAGE)

\* C10: in a cycle of the handler, a snapshot that is not active or whose
\* status is "stopped" gets no update, and a clear() when the client is
\* connected; an update is sent only for a snapshot whose status is "playing"
\* or "paused".
C10_StoppedNeverUpdates ==
    (cycle.state = "handler" /\ cycle.status # None) =>
        LET status == cycle.status[1] IN
        /\ (~Get(status.active, FALSE) \/ status.status = Some("stopped"))
           => /\ Updates(sink) = << >>
              /\ cycle.connected => Ops(sink) = <<"clear">>
        /\ Updates(sink) # << >>
           => status.status \in {Some("playing"), Some("paused")}

\* C15 as stated: read_status gives its caller, for an HTTP 401 response, an
\* outcome that differs from the one it gives for HTTP 404 and for a refused
\* connection.
C15_AuthFailureDistinctResult ==
    sr_call.response = "401" =>
        /\ sr_ret # failure_result("404")
        /\ sr_ret # failure_result("ConnectionError")

\* C15, amended: read_status returns None for an HTTP 401 response as it does
\* for HTTP 404 and a refused connection, and tells them apart in its log
\* record only (error level, "Authentication failed", against debug level);
\* check_vlc_status returns for 401 a message of its own, different from the
\* ones for 404 and for a refused connection.
C15_AuthFailureDistinctLog ==
    /\ sr_call.response = "401" =>
          /\ sr_ret = None
          /\ sr_call.log # None
          /\ sr_call.log[1].level = "error"
          /\ \A r \in {"404", "ConnectionError"} :
                /\ failure_result(r) = sr_ret
                /\ failure_log(r) # sr_call.log
                /\ failure_log(r)[1].level = "debug"
    /\ (cs_ret.response = "401" /\ HTTP_ENABLED) =>
          /\ cs_ret.result[1][1] = FALSE
          /\ \A r \in Responses \ {"401"} :
                check_vlc_status(TRUE, r) # cs_ret.result[1]

\* read_status and check_vlc_status have both answered a 401 response.
C15_Witness ==
    /\ HTTP_ENABLED
    /\ sr_call.response = "401"
    /\ sr_prev.response = "404"
    /\ sr_ret = None
    /\ sr_call.log =
          LogRecord("error", "Authentication failed. Check your HTTP password.")
    /\ cs_ret.response = "401"
    /\ cs_ret.result = Some(<<FALSE,
          "VLC is running but authentication failed (incorrect password)">>)

\* C16: a read_status call whose request ends in a non-200 response, a
\* connection error or a timeout returns None and leaves last_status and
\* last_status_hash as they were before the call.
C16_FailedReadLeavesState ==
    sr_call.response \in Responses \ {"200"} =>
        /\ sr_ret = None
        /\ sr_last_status = sr_before.last_status
        /\ sr_last_status_hash = sr_before.last_status_hash

\* A request timed out while a status and its hash were held.
C16_Witness ==
    /\ sr_call.response = "Timeout"
    /\ sr_ret = None
    /\ sr_last_status # EmptyDict
    /\ sr_last_status.status = "playing"
    /\ sr_last_status_hash # ""
    /\ sr_before.last_status = sr_last_status

\* C17: every read of a payload that fails to parse or to convert, a repeated
\* read of it included, yields no snapshot: the call returns None (or the
\* empty last_status of a reader that has accepted nothing yet).
C17_MalformedNeverAccepted ==
    ( /\ sr_call.response = "200"
      /\ \/ ~json_loads_ok(sr_call.content[1])
         \/ convert_raises(sr_call.content[1]) )
    => (sr_ret = None \/ sr_ret = EmptyDict)

\* C12: when a handler cycle ended in a failed connect() or a failed update
\* for a playing or paused snapshot, the client is left not connected, and the
\* next cycle, also one that finds the status file unchanged, calls connect()
\* first and, if that succeeds, sends the update again.
C12_ReconnectsAndResends ==
    [][ ( /\ cycle'.n # cycle.n
          /\ cycle.state = "handler"
          /\ cycle'.state = "handler"
          /\ sink # << >>
          /\ sink[Len(sink)].op \in {"connect", "update"}
          /\ ~sink[Len(sink)].ok
          /\ last_status # EmptyDict
          /\ Get(last_status.active, FALSE)
          /\ last_status.status \in {Some("playing"), Some("paused")}
          /\ file.mtime <= last_file_mod_time )
        => /\ ~connected
           /\ sink' # << >>
           /\ sink'[1].op = "connect"
           /\ sink'[1].ok => (Len(sink') = 2 /\ sink'[2].op = "update") ]_vars

\* C18 as stated: a handler cycle that finds the status file unchanged since
\* the cycle before sends no update to the sink, whether the last snapshot is
\* playing or paused.
C18_UnchangedSendsNothing ==
    [][ ( /\ cycle'.n # cycle.n
          /\ cycle.state = "handler"
          /\ cycle'.state = "handler"
          /\ file.mtime <= last_file_mod_time
          /\ last_status # EmptyDict
          /\ last_status.status \in {Some("playing"), Some("paused")} )
        => Updates(sink') = << >> ]_vars

\* C18, amended: a handler cycle that finds the status file unchanged reads
\* no snapshot.  It sends the sink nothing unless the last snapshot is active
\* and playing with a known position; then it extrapolates the position and
\* sends an update (after connect() when not connected, and unless that
\* connect() fails).
C18_UnchangedSendsOnlyExtrapolated ==
    [][ ( /\ cycle'.n # cycle.n
          /\ cycle'.state = "handler"
          /\ file.mtime <= last_file_mod_time )
        => /\ cycle'.read = "none"
           /\ cycle'.extrapolated <=>
                ( /\ last_status # EmptyDict
                  /\ Get(last_status.active, FALSE)
                  /\ last_status.status = Some("playing")
                  /\ last_status.playback.position # None )
           /\ IF cycle'.extrapolated
              THEN \/ Ops(sink') = <<"update">> /\ connected
                   \/ Ops(sink') = <<"connect", "update">> /\ ~connected
                   \/ sink' = <<SinkCall("connect", FALSE)>> /\ ~connected
              ELSE sink' = << >> ]_vars

\* After an update for a paused snapshot, a cycle on the unchanged file has
\* sent nothing.
C18_Witness ==
    /\ cycle.state = "handler"
    /\ cycle.read = "none"
    /\ ~cycle.extrapolated
    /\ cycle.connected
    /\ connected
    /\ last_status # EmptyDict
    /\ last_status.status = Some("paused")
    /\ file.exists
    /\ sink = << >>

\* The staleness timeout of config.py, in seconds.
STATUS_TIMEOUT == 5

\* C11: in a run of VLCDiscordRP, a cycle that reads no snapshot more than
\* STATUS_TIMEOUT seconds after the last snapshot was read, while that last
\* snapshot is an active playing one, sends no playing update to the sink.
C11_StaleSnapshotSendsNoUpdate ==
    ( /\ run.pc = "sleep"
      /\ cycle.read = "none"
      /\ last_status # EmptyDict
      /\ last_status # NotADict
      /\ Get(last_status.active, FALSE)
      /\ last_status.status = Some("playing")
      /\ cycle.time > run.received + STATUS_TIMEOUT )
    => Updates(sink) = << >>

\* C13: when run() has ended on a KeyboardInterrupt while the sink was
\* connected, run() has returned and the sink has received clear() and, unless
\* that clear() itself failed, close() after it.
C13_InterruptClearsAndCloses ==
    (run.pc \in {"returned", "escaped"} /\ connected) =>
        /\ run.pc = "returned"
        /\ sink # << >>
        /\ sink[1].op = "clear"
        /\ sink[1].ok => Ops(sink) = <<"clear", "close">>

\* C14: a cycle of run() in which update_presence raises an exception leaves
\* run() in its 5 second backoff, and when the backoff ends without an
\* interrupt the loop is about to run another cycle, 5 seconds later.
C14_ExceptionNeverEndsLoop ==
    [][ /\ (run.pc = "cycle" /\ cycle'.n # cycle.n /\ run'.outcome = "raised")
            => run'.pc = "backoff"
        /\ (run.pc = "backoff" /\ run'.pc \notin {"backoff", "escaped"})
            => (run'.pc = "cycle" /\ now' = now + BACKOFF_SECONDS) ]_vars

\* C14 witness: after an exception and its backoff, a later cycle has
\* completed normally.
C14_Witness ==
    /\ run.backoffs >= 1
    /\ run.pc = "sleep"
    /\ run.outcome = "returned"
    /\ cycle.read = "status"

\* C19: a call of CoverArt._calculate_release_score does not raise, whatever
\* its arguments, the call with recording None included.
C19_ScoreNeverRaises ==
    (sc_call # None /\ sc_call.done) => ~sc_ret.raised

\* The names of the artist-credit entries of a release, as credited.
CreditedNames(release) ==
    { release.artist_credit[i].name[1] :
        i \in { j \in 1..Len(release.artist_credit) :
                    /\ IsCredit(release.artist_credit[j])
                    /\ release.artist_credit[j].name # None } }

\* A completed call with a recording whose media artist is exactly one of
\* the credited names of the release.
ExactArtistCall ==
    /\ sc_call # None
    /\ sc_call.done
    /\ sc_call.recording # None
    /\ sc_call.media.artist # None
    /\ sc_call.media.artist[1] \in CreditedNames(sc_call.release)

ScoreWithoutArtist ==
    calculate_release_score(sc_call.recording, sc_call.release,
                            [sc_call.media EXCEPT !.artist = None])

\* C20: for a recording and a release, the score with a media artist that
\* exactly matches a credited artist name is strictly greater than the score
\* of the same arguments without the artist field.
C20_ExactArtistScoresHigher ==
    ExactArtistCall =>
        /\ ~sc_ret.raised
        /\ ~ScoreWithoutArtist.raised
        /\ sc_ret.score > ScoreWithoutArtist.score

\* C20 witness: such a call where the penalties floor the score without the
\* artist at 0.
C20_Witness ==
    /\ ExactArtistCall
    /\ penalties(sc_call.release) > 0
    /\ ScoreWithoutArtist.score = 0
    /\ sc_ret.score > 0

\* C24: every update sent to the sink for a snapshot that carries a
\* media_type has activity_type listening if that media_type is "audio" and
\* watching otherwise.
C24_ActivityTypeFromMediaType ==
    (cycle.status # None /\ "media_type" \in DOMAIN cycle.status[1]) =>
        \A i \in 1..Len(sink) :
            sink[i].op = "update" =>
                sink[i].activity_type =
                    IF cycle.status[1].media_type = Some("audio")
                    THEN "listening" ELSE "watching"

\* The state text the rule gives for a snapshot: the artist and album when
\* present, else the default of the content type.
StateTextByRule(status, paused) ==
    LET artist == Get(status.media.artist, "")
        album == Get(status.media.album, "")
        audio == "media_type" \in DOMAIN status
                    /\ status.media_type = Some("audio")
    IN  IF artist # "" /\ album # ""
        THEN "by " \o artist \o " " \o Bullet \o " " \o album
        ELSE IF artist # "" THEN "by " \o artist
        ELSE IF album # "" THEN "from " \o album
        ELSE IF audio THEN "by Unknown Artist"
        ELSE IF paused THEN "Paused"
        ELSE "Now watching"

\* C25: the state text of every Playing or Paused update for a snapshot
\* without a classified content type is the text of the rule, truncated by
\* the 128-character rule.
C25_StateTextFollowsRule ==
    ( /\ cycle.state \in {"Playing", "Paused", "handler"}
      /\ cycle.status # None
      /\ "content_type" \in DOMAIN cycle.status[1] =>
            cycle.status[1].content_type = None )
    => \A i \in 1..Len(sink) :
          sink[i].op = "update" =>
              sink[i].state =
                  format_text(
                      StateTextByRule(cycle.status[1],
                                      \/ cycle.state = "Paused"
                                      \/ cycle.status[1].status = Some("paused")),
                      TEXT_LIMIT)

\* The last accepted snapshot is active with status playing.
LastIsPlaying ==
    /\ last_status # EmptyDict
    /\ Get(last_status.active, FALSE)
    /\ last_status.status = Some("playing")

\* C27: a cycle of VLCDiscordRP.update_presence extrapolates only when it
\* read nothing and the last accepted snapshot is active and playing, and
\* then the stored position is the last position plus the seconds since the
\* last check, at most the duration; a cycle that read nothing while the last
\* snapshot is paused or not active leaves the stored position as it was.
C27_ExtrapolatesOnlyPlaying ==
    [][ (cycle'.n # cycle.n /\ cycle'.state = "handler") =>
          /\ cycle'.extrapolated =>
                /\ cycle'.read = "none"
                /\ LastIsPlaying
                /\ LET duration == Get(last_status.playback.duration, 0)
                       moved == last_status.playback.position[1]
                                    + (now - last_check_time)
                   IN  /\ last_status'.playback.position =
                            Some(IF moved > duration THEN duration ELSE moved)
                       /\ simulated_position' = last_status'.playback.position[1]
          /\ (cycle'.read = "none" /\ last_status # EmptyDict /\ ~LastIsPlaying) =>
                /\ ~cycle'.extrapolated
                /\ last_status' = last_status
                /\ simulated_position' = simulated_position ]_vars

\* C27 witness: a playing snapshot read at 30 of 300 seconds has been
\* extrapolated to a later position below the duration.
C27_Witness ==
    /\ cycle.state = "handler"
    /\ cycle.extrapolated
    /\ last_status.media.title = Some("Money")
    /\ last_status.playback.position[1] > 30
    /\ last_status.playback.position[1] < 300

\* C28: after a cycle of VLCDiscordRP.update_presence that read a snapshot
\* from the file, last_status is that snapshot and, when it has a position,
\* simulated_position is that position and last_position_update the time of
\* the cycle.
C28_RealReadResetsBaseline ==
    (cycle.state = "handler" /\ cycle.read = "status" /\ cycle.status # None) =>
        /\ last_status = cycle.status[1]
        /\ cycle.status[1].playback.position # None =>
              /\ simulated_position = cycle.status[1].playback.position[1]
              /\ last_position_update = cycle.time

\* In a run, the last cycle extrapolated the playing snapshot that the file
\* still holds and that was read at run.received.
ExtrapolatedSinceRead ==
    /\ run.pc = "sleep"
    /\ cycle.extrapolated
    /\ file.mtime = last_file_mod_time
    /\ file.content \in FileStatuses
    /\ file.content.status = Some("playing")
    /\ file.content.playback.position # None

\* C29: in a run of consecutive extrapolated cycles after a read, at time t0,
\* of a playing snapshot with position p0, while p0 + (t - t0) does not
\* exceed the duration, the stored position at the cycle's time t is
\* p0 + (t - t0) and every update sent carries the start t0 - p0.
C29_ExtrapolationKeepsStart ==
    ( /\ ExtrapolatedSinceRead
      /\ file.content.playback.position[1] + (cycle.time - run.received)
            <= Get(file.content.playback.duration, 0) )
    => LET p0 == file.content.playback.position[1]
           t0 == run.received
       IN  /\ last_status.playback.position = Some(p0 + (cycle.time - t0))
           /\ \A i \in 1..Len(sink) :
                 sink[i].op = "update" => sink[i].start = Some(t0 - p0)

\* C29 witness: the third or a later extrapolated cycle after the read has
\* sent an update.
C29_Witness ==
    /\ ExtrapolatedSinceRead
    /\ cycle.time - run.received >= 3
    /\ Updates(sink) # << >>
    /\ Updates(sink)[1].start = Some(run.received - 30)

\* C30: a PlayingState or PausedState call for the media of the call before
\* it, with no content image, made less than CACHE_TTL seconds after a call
\* that resolved the cover art, makes no metadata-search request.
C30_SecondCallUsesCache ==
    [][ ( /\ cycle'.n # cycle.n
          /\ cycle.state \in {"Playing", "Paused"}
          /\ cycle'.state \in {"Playing", "Paused"}
          /\ cycle.status # None
          /\ cycle'.status = cycle.status
          /\ ~TruthyText(cycle.status[1].content_image_url)
          /\ ca_call.kind = "miss"
          /\ ca_call.requests # << >>
          /\ now' - ca_call.start < CACHE_TTL )
        => (ca_call'.n = ca_call.n \/ ca_call'.requests = << >>) ]_vars

\* C26: a snapshot that StatusReader._convert_vlc_status has produced with a
\* duration above 0 has its position, the fraction in 'position' as well as
\* the seconds in 'time', between 0 and the duration.
C26_PositionWithinDuration ==
    ( /\ sr_call.converted
      /\ sr_ret # None
      /\ sr_ret # EmptyDict
      /\ sr_ret.playback.duration > 0 )
    => /\ 0 <= sr_ret.playback.position
       /\ sr_ret.playback.position <= sr_ret.playback.duration
       /\ 0 <= sr_ret.playback.time
       /\ sr_ret.playback.time <= sr_ret.playback.duration

(***************************************************************************)
(* audio.py: calls of CoverArt._fetch_from_musicbrainz                      *)
(***************************************************************************)
\* The media a search is made for: every combination of artist, album and
\* title being present.
SearchMedia ==
    { MediaDict(artist, album, title) :
        artist \in {None, Some("Pink Floyd")},
        album \in {None, Some("The Dark Side of the Moon")},
        title \in {None, Some("Money")} }

\* How many candidates a recordings response holds at most.
MaxCandidates == 2

\* The score MusicBrainz gives a candidate.
ApiScores == {20, 50, 90}

CandidateIds == <<"release-1", "release-2", "release-3">>

\* The recordings responses: up to MaxCandidates recordings, each with one
\* release, an API score and artwork that exists or not.
RecordingLists ==
    UNION { [1..n -> ApiScores \X BOOLEAN] : n \in 0..MaxCandidates }

RecordingAnswers ==
    {Failed}
    \cup { Found([i \in 1..Len(l) |->
                    Candidate(CandidateIds[i], Recording(Some(l[i][1]), None),
                              BareRelease, l[i][2])]) : l \in RecordingLists }

\* The releases responses: failed, empty, or one release that MusicBrainz
\* scores 90 and whose artwork exists.
ScoredRelease == Release(Some(90), None, << >>, None, None, None, FALSE)

ReleaseAnswers ==
    {Failed, Found(<< >>),
     Found(<<Candidate("release-1", None, ScoredRelease, TRUE)>>)}

\* A call about to be made.
InitSearch ==
    /\ now = 0
    /\ TextIdle
    /\ FuzzyIdle
    /\ ClientIdle
    /\ ScoreIdle
    /\ VideoIdle
    /\ ReaderIdle
    /\ CoverIdle
    /\ HandlerIdle
    /\ \E media \in SearchMedia, a1 \in ReleaseAnswers,
          a2 \in RecordingAnswers, a3 \in ReleaseAnswers :
            mb_call = [media |-> media, answers |-> <<a1, a2, a3>>]
    /\ mb_ret = NoSearch

\* self._fetch_from_musicbrainz(media)
FetchFromMusicbrainz ==
    /\ mb_ret = NoSearch
    /\ LET found == fetch_from_musicbrainz(mb_call.media, mb_call.answers)
       IN  mb_ret' = [done |-> TRUE, requests |-> found[1], url |-> found[2],
                      searches |-> found[3]]
    /\ UNCHANGED <<now, mb_call, textVars, scoreVars, videoVars, fuzzyVars, client, readerVars,
                   coverVars, handlerVars>>

NextSearch == FetchFromMusicbrainz

SpecSearch == InitSearch /\ [][NextSearch]_vars

(***************************************************************************)
(* audio.py: calls of CoverArt._fuzzy_match                                 *)
(***************************************************************************)
\* The texts compared: names with other letter case, spaces, punctuation,
\* one inside another, of 5 characters and more.
FuzzyTexts ==
    {"", "Money", "Money (Live)", "Floyd", "Pink Floyd", "pink floyd",
     "PinkFloyd", "Pink Floyd!", "The Pink Floyd Band", "AC/DC", "ACDC"}

\* A call about to be made.
InitFuzzy ==
    /\ now = 0
    /\ TextIdle
    /\ ClientIdle
    /\ ScoreIdle
    /\ VideoIdle
    /\ SearchIdle
    /\ ReaderIdle
    /\ CoverIdle
    /\ HandlerIdle
    /\ \E str1 \in FuzzyTexts, str2 \in FuzzyTexts :
            fz_call = [str1 |-> str1, str2 |-> str2]
    /\ fz_ret = NoFuzzy

\* self._fuzzy_match(str1, str2)
FuzzyMatch ==
    /\ fz_ret = NoFuzzy
    /\ fz_ret' = [done |-> TRUE,
                  result |-> fuzzy_match(fz_call.str1, fz_call.str2)]
    /\ UNCHANGED <<now, fz_call, textVars, scoreVars, videoVars, searchVars, client,
                   readerVars,
                   coverVars, handlerVars>>

NextFuzzy == FuzzyMatch

SpecFuzzy == InitFuzzy /\ [][NextFuzzy]_vars

(***************************************************************************)
(* discord_client.py: a DiscordRPCClient and the calls made on it           *)
(***************************************************************************)
\* self.rpc after a method made the calls on the sink: connect() stores a
\* new Presence, whose connect() succeeded or raised; close() closes it.
RECURSIVE rpc_after(_, _)
rpc_after(rpc, calls) ==
    IF calls = << >> THEN rpc
    ELSE rpc_after(
            IF Head(calls).op = "connect"
            THEN Some([connected |-> Head(calls).ok, closed |-> FALSE])
            ELSE IF Head(calls).op = "close"
            THEN Some([rpc[1] EXCEPT !.closed = TRUE])
            ELSE rpc,
            Tail(calls))

\* The keyword arguments of update.
ClientArgs ==
    { [op |-> "update", details |-> "Money", state |-> "by Pink Floyd",
       large_image |-> image, large_text |-> text,
       small_image |-> Some(PLAYING_IMAGE), small_text |-> PLAYING_IMAGE,
       start |-> None, end |-> None, activity_type |-> activity] :
        activity \in {"listening", "watching"},
        image \in {None, Some("https://img/cover.png")},
        text \in {None, Some(""), Some("The Wall")} }

InitClient ==
    /\ now = 0
    /\ TextIdle
    /\ ScoreIdle
    /\ VideoIdle
    /\ SearchIdle
    /\ FuzzyIdle
    /\ ReaderIdle
    /\ CoverIdle
    /\ HandlerIdle
    /\ client = NoClient

\* What a method leaves: r is the triple of the method; n counts the calls.
ClientDone(op, r) ==
    /\ client' = [rpc |-> rpc_after(client.rpc, r[1]),
                  connected |-> r[2],
                  last |-> [n |-> client.last.n + 1, op |-> op,
                            was_connected |-> client.connected,
                            calls |-> r[1], ret |-> r[3]]]
    /\ UNCHANGED <<now, textVars, scoreVars, videoVars, searchVars, fuzzyVars,
                   readerVars, coverVars, handlerVars>>

\* How many calls are made on the client.
MaxClientCalls == 3

ClientConnect(connect_ok) ==
    /\ client.last.n < MaxClientCalls
    /\ ClientDone("connect", client_connect(connect_ok))

ClientUpdate(args, connect_ok, call_ok) ==
    /\ client.last.n < MaxClientCalls
    /\ ClientDone("update",
                  client_update(args, client.connected, connect_ok, call_ok))

ClientClear(call_ok) ==
    /\ client.last.n < MaxClientCalls
    /\ ClientDone("clear", client_clear(client.connected, call_ok))

ClientClose(call_ok) ==
    /\ client.last.n < MaxClientCalls
    /\ ClientDone("close", client_close(client.connected, call_ok))

NextClient ==
    \/ \E ok \in BOOLEAN : ClientConnect(ok)
    \/ \E args \in ClientArgs, connect_ok \in BOOLEAN, call_ok \in BOOLEAN :
            ClientUpdate(args, connect_ok, call_ok)
    \/ \E ok \in BOOLEAN : ClientClear(ok)
    \/ \E ok \in BOOLEAN : ClientClose(ok)

SpecClient == InitClient /\ [][NextClient]_vars

(***************************************************************************)
(* discord_handler.py: calls of VLCDiscordRP.read_status on a status file   *)
(***************************************************************************)
\* The modification times a status file may carry.  A file may be replaced
\* by one with an earlier or the same modification time.
MaxMtime == 3

\* What is written to the file: a status, an empty JSON object, or text
\* that is not JSON.
WrittenContents == { MoneySnapshot, EmptyDict, [json |-> "invalid"] }

\* The record of the read_status calls: the file and last_file_mod_time at
\* the last call and what it returned; parsed lists the modification times of
\* the files that json.load was given, in the order of the calls.
ReadRecord(before, parsed, ret) ==
    [n |-> 1 - cycle.n, file |-> file, before |-> before, parsed |-> parsed,
     ret |-> ret]

InitFile ==
    /\ now = 0
    /\ TextIdle
    /\ ScoreIdle
    /\ VideoIdle
    /\ SearchIdle
    /\ FuzzyIdle
    /\ ClientIdle
    /\ ReaderIdle
    /\ CoverIdle
    /\ variant = "file"
    /\ file = NoFile
    /\ last_status = EmptyDict
    /\ connected = FALSE
    /\ last_file_mod_time = 0
    /\ last_check_time = 0
    /\ simulated_position = 0
    /\ last_position_update = 0
    /\ sink = << >>
    /\ cycle = [n |-> 0, file |-> NoFile, before |-> 0, parsed |-> << >>,
                ret |-> None]
    /\ run = NoRun

\* The status file is written, or replaced, with some modification time.
StatusFileWritten(content, mtime) ==
    /\ variant = "file"
    /\ file' = [exists |-> TRUE, mtime |-> mtime, content |-> content]
    /\ UNCHANGED <<now, textVars, scoreVars, videoVars, searchVars, fuzzyVars,
                   client, readerVars, coverVars, variant, last_status,
                   connected, last_file_mod_time, last_check_time,
                   simulated_position, last_position_update, sink, cycle,
                   run>>

\* The status file is removed.
StatusFileRemoved ==
    /\ variant = "file"
    /\ file.exists
    /\ file' = NoFile
    /\ UNCHANGED <<now, textVars, scoreVars, videoVars, searchVars, fuzzyVars,
                   client, readerVars, coverVars, variant, last_status,
                   connected, last_file_mod_time, last_check_time,
                   simulated_position, last_position_update, sink, cycle,
                   run>>

\* One call of read_status.  The file is opened and given to json.load
\* exactly when line 96 has stored its modification time.
ReadStatus ==
    LET rd == read_status(file, last_file_mod_time)
    IN  /\ variant = "file"
        /\ last_file_mod_time' = rd[2]
        /\ cycle' = ReadRecord(last_file_mod_time,
                               IF rd[2] # last_file_mod_time
                               THEN Append(cycle.parsed, file.mtime)
                               ELSE cycle.parsed,
                               rd[1])
        /\ UNCHANGED <<now, textVars, scoreVars, videoVars, searchVars,
                       fuzzyVars, client, readerVars, coverVars, variant, file,
                       last_status, connected, last_check_time,
                       simulated_position, last_position_update, sink, run>>

NextFile ==
    \/ \E content \in WrittenContents, mtime \in 1..MaxMtime :
            StatusFileWritten(content, mtime)
    \/ StatusFileRemoved
    \/ ReadStatus

SpecFile == InitFile /\ [][NextFile]_vars

(***************************************************************************)
(* video.py: VideoDetector                                                  *)
(***************************************************************************)
\* text[i], or "" outside the text
Ch(text, i) == IF i >= 1 /\ i <= Len(text) THEN SubSeq(text, i, i) ELSE ""

\* text[i:], text[:i]
From(text, i) == IF i > Len(text) THEN "" ELSE SubSeq(text, i, Len(text))
Upto(text, i) ==
    IF i < 1 THEN "" ELSE SubSeq(text, 1, IF i > Len(text) THEN Len(text) ELSE i)

IsDigit(c) == c \in Chars("0123456789")
IsAlnum(c) == c \in Chars(UPPER \o LOWER \o "0123456789")
\* the class [\.\s_-]
IsSep(c) == c \in {".", " ", "_", "-"}
\* the classes [\.\s\[\(_-] and [\]\)\._\s-] of the movie pattern
IsOpenSep(c) == c \in {".", " ", "[", "(", "_", "-"}
IsCloseSep(c) == c \in {"]", ")", ".", "_", " ", "-"}

\* int(text) for a text of digits
RECURSIVE int(_)
int(text) ==
    IF text = "" THEN 0
    ELSE int(Upto(text, Len(text) - 1)) * 10
            + (CHOOSE d \in 0..9 : Digits[d + 1] = Ch(text, Len(text)))

\* the first index from i on whose character is not in the class
RECURSIVE SkipSeps(_, _)
SkipSeps(text, i) == IF IsSep(Ch(text, i)) THEN SkipSeps(text, i + 1) ELSE i

RECURSIVE SkipOpenSeps(_, _)
SkipOpenSeps(text, i) ==
    IF IsOpenSep(Ch(text, i)) THEN SkipOpenSeps(text, i + 1) ELSE i

\* how many digits stand at i
RECURSIVE DigitRun(_, _)
DigitRun(text, i) ==
    IF IsDigit(Ch(text, i)) THEN 1 + DigitRun(text, i + 1) ELSE 0

\* word stands at i, letter case ignored
WordAt(text, i, word) ==
    /\ i + Len(word) - 1 <= Len(text)
    /\ lower(SubSeq(text, i, i + Len(word) - 1)) = word

\* str.strip() of spaces
RECURSIVE strip(_)
strip(text) ==
    IF Ch(text, 1) = " " THEN strip(From(text, 2))
    ELSE IF Ch(text, Len(text)) = " " THEN strip(Upto(text, Len(text) - 1))
    ELSE text

\* re.sub(r"[\._\-]", " ", text)
RECURSIVE spaced(_)
spaced(text) ==
    IF text = "" THEN ""
    ELSE (IF Ch(text, 1) \in {".", "_", "-"} THEN " " ELSE Ch(text, 1))
         \o spaced(From(text, 2))

\* the index of the first c in text from i on, or 0
IndexFrom(text, c, i) ==
    IF \E j \in i..Len(text) : Ch(text, j) = c
    THEN CHOOSE j \in i..Len(text) :
            Ch(text, j) = c /\ \A k \in i..(j - 1) : Ch(text, k) # c
    ELSE 0

\* re.sub(r"\[.*?\]|\(.*?\)|[\._\-]", " ", text) and, with the extensions
\* .mkv, .mp4 and .avi replaced too, the substitution of line 118
RECURSIVE unbracketed(_, _)
unbracketed(text, extensions) ==
    IF text = "" THEN ""
    ELSE LET c == Ch(text, 1)
             close == IF c = "[" THEN IndexFrom(text, "]", 2)
                      ELSE IF c = "(" THEN IndexFrom(text, ")", 2)
                      ELSE 0
         IN  IF close > 0
             THEN " " \o unbracketed(From(text, close + 1), extensions)
             ELSE IF extensions /\ Upto(text, 4) \in {".mkv", ".mp4", ".avi"}
             THEN " " \o unbracketed(From(text, 5), extensions)
             ELSE (IF c \in {".", "_", "-"} THEN " " ELSE c)
                  \o unbracketed(From(text, 2), extensions)

\* _clean_title, line 122: the container extension at the end
EXTENSIONS == {".mkv", ".mp4", ".avi", ".mov", ".wmv", ".flv", ".webm"}

without_extension(title) ==
    IF \E e \in EXTENSIONS :
            /\ Len(title) >= Len(e)
            /\ lower(From(title, Len(title) - Len(e) + 1)) = e
    THEN LET e == CHOOSE e \in EXTENSIONS :
                    /\ Len(title) >= Len(e)
                    /\ lower(From(title, Len(title) - Len(e) + 1)) = e
         IN  Upto(title, Len(title) - Len(e))
    ELSE title

\* _clean_title, line 123: the text from p on is a release group or a
\* quality tag that ends the title
IsTag(tail) ==
    \/ /\ Ch(tail, 1) = "-"
       /\ Len(tail) >= 2
       /\ \A i \in 2..Len(tail) : IsAlnum(Ch(tail, i))
    \/ /\ Len(tail) \in {4, 5}
       /\ Ch(tail, Len(tail)) = "p"
       /\ \A i \in 1..(Len(tail) - 1) : IsDigit(Ch(tail, i))
    \/ tail \in {"x264", "x265", "HEVC", "WEB-DL", "BluRay", "WEBRip"}

without_tag(title) ==
    IF \E p \in 1..Len(title) : IsTag(From(title, p))
    THEN LET p == CHOOSE p \in 1..Len(title) :
                    /\ IsTag(From(title, p))
                    /\ \A q \in 1..(p - 1) : ~IsTag(From(title, q))
         IN  Upto(title, p - 1)
    ELSE title

\* _clean_title(title)
clean_title(title) == without_tag(without_extension(title))

NoMatch == [matched |-> FALSE]

\* The three TV patterns of lines 81-85 tried with group 1 ending before
\* index k: season and episode, or NoMatch.
tv_pattern_at(text, k, which) ==
    LET a == SkipSeps(text, k)
        Numbers(s, ns, e) ==
            LET ne == IF DigitRun(text, e) > 2 THEN 2 ELSE DigitRun(text, e)
            IN  IF ne = 0 THEN NoMatch
                ELSE [matched |-> TRUE, name |-> Upto(text, k - 1),
                      season |-> int(SubSeq(text, s, s + ns - 1)),
                      episode |-> int(SubSeq(text, e, e + ne - 1))]
    IN  CASE which = 1 ->
                LET n == DigitRun(text, a + 1)
                    b == SkipSeps(text, a + 1 + n)
                IN  IF WordAt(text, a, "s") /\ n \in {1, 2}
                          /\ WordAt(text, b, "e")
                    THEN Numbers(a + 1, n, b + 1) ELSE NoMatch
          [] which = 2 ->
                LET n == DigitRun(text, a)
                IN  IF n \in {1, 2} /\ WordAt(text, a + n, "x")
                    THEN Numbers(a, n, a + n + 1) ELSE NoMatch
          [] which = 3 ->
                LET b == SkipSeps(text, a + 6)
                    n == DigitRun(text, b)
                    c == SkipSeps(text, b + n)
                    d == SkipSeps(text, c + 7)
                IN  IF WordAt(text, a, "season") /\ n \in {1, 2}
                          /\ WordAt(text, c, "episode")
                    THEN Numbers(b, n, d) ELSE NoMatch

\* re.search of a TV pattern: the lazy group 1 is the shortest that matches
tv_search(text, which) ==
    LET ends == { k \in 1..(Len(text) + 1) :
                    tv_pattern_at(text, k, which).matched }
    IN  IF ends = {} THEN NoMatch
        ELSE tv_pattern_at(text, CHOOSE k \in ends : \A j \in ends : k <= j,
                           which)

\* The first TV pattern in the order of the list that matches, or NoMatch
tv_match(text) ==
    IF tv_search(text, 1).matched THEN tv_search(text, 1)
    ELSE IF tv_search(text, 2).matched THEN tv_search(text, 2)
    ELSE tv_search(text, 3)

\* The movie pattern of line 96 with group 1 ending before index k >= 2
movie_pattern_at(text, k) ==
    LET a == SkipOpenSeps(text, k)
        year == SubSeq(text, a, a + 3)
    IN  IF /\ a > k
           /\ a + 4 <= Len(text)
           /\ Upto(year, 2) \in {"19", "20"}
           /\ IsDigit(Ch(year, 3))
           /\ IsDigit(Ch(year, 4))
           /\ IsCloseSep(Ch(text, a + 4))
        THEN [matched |-> TRUE, name |-> Upto(text, k - 1), year |-> year]
        ELSE NoMatch

movie_match(text) ==
    LET ends == { k \in 2..Len(text) : movie_pattern_at(text, k).matched }
    IN  IF ends = {} THEN NoMatch
        ELSE movie_pattern_at(text, CHOOSE k \in ends : \A j \in ends : k <= j)

\* The test of line 104: a pair of square brackets, or .sub. or .dub.
anime_test(text) ==
    \/ contains("[", text) /\ contains("]", text)
    \/ \E i \in 1..Len(text) : WordAt(text, i, ".sub.") \/ WordAt(text, i, ".dub.")

\* The episode pattern of line 105 at index p
episode_at(text, p) ==
    LET n == DigitRun(text, p + 1) IN
    /\ IsSep(Ch(text, p))
    /\ n \in {1, 2, 3}
    /\ IsSep(Ch(text, p + 1 + n))

episode_match(text) ==
    LET starts == { p \in 1..Len(text) : episode_at(text, p) }
    IN  IF starts = {} THEN NoMatch
        ELSE LET p == CHOOSE p \in starts : \A q \in starts : p <= q
             IN  [matched |-> TRUE, name |-> Upto(text, p - 1),
                  episode |-> int(SubSeq(text, p + 1, p + DigitRun(text, p + 1)))]

\* The metadata dict: a key that is absent is None.
Metadata(title, clean) ==
    [original_title |-> Some(title), clean_title |-> Some(clean),
     show_name |-> None, season |-> None, episode |-> None,
     movie_name |-> None, year |-> None, anime_name |-> None, title |-> None]

\* lines 87-94: the show name with its separators spaced; the variant that
\* keeps the separators is a mutation
show_name_unspaced(group) == strip(group)

show_name_of(group) == strip(spaced(group))

\* _detect_content_type with the movie pattern tested before the TV patterns
detect_movie_first(title) ==
    LET clean == clean_title(title)
        metadata == Metadata(title, clean)
        tv == tv_match(clean)
        movie == movie_match(clean)
    IN  IF movie.matched
        THEN <<"movie", [metadata EXCEPT !.movie_name = Some(show_name_of(movie.name)),
                                         !.year = Some(movie.year)]>>
        ELSE IF tv.matched
        THEN <<"tv_show", [metadata EXCEPT !.show_name = Some(show_name_of(tv.name)),
                                           !.season = Some(tv.season),
                                           !.episode = Some(tv.episode)]>>
        ELSE <<"video", [metadata EXCEPT !.title = Some(strip(unbracketed(clean, TRUE)))]>>

\* _detect_content_type(title): <<content_type, metadata>>
detect_content_type(title) ==
    LET clean == clean_title(title)
        metadata == Metadata(title, clean)
        tv == tv_match(clean)
        movie == movie_match(clean)
        ep == episode_match(clean)
    IN  IF tv.matched
        THEN <<"tv_show", [metadata EXCEPT !.show_name = Some(show_name_of(tv.name)),
                                           !.season = Some(tv.season),
                                           !.episode = Some(tv.episode)]>>
        ELSE IF movie.matched
        THEN <<"movie", [metadata EXCEPT !.movie_name = Some(show_name_of(movie.name)),
                                         !.year = Some(movie.year)]>>
        ELSE IF anime_test(clean)
        THEN IF ep.matched
             THEN <<"anime", [metadata EXCEPT
                        !.episode = Some(ep.episode),
                        !.anime_name = Some(strip(unbracketed(ep.name, FALSE)))]>>
             ELSE <<"anime", [metadata EXCEPT
                        !.anime_name = Some(strip(unbracketed(clean, FALSE)))]>>
        ELSE <<"video", [metadata EXCEPT !.title = Some(strip(unbracketed(clean, TRUE)))]>>

\* A dict is a function on its keys; {} is the function on no key.
NoKeys == <<>>

HasKey(dict, key) == dict # NoKeys /\ key \in DOMAIN dict

\* dict.get(key, default)
DictGet(dict, key, default) == IF HasKey(dict, key) THEN dict[key] ELSE default

\* analyze(media_info), answer being what _fetch_image_from_google returns
\* when it is called: the dict returned and whether the search was made.
\* Line 53 stores an empty 'media' when the key is missing.
analyze(media_info, answer) ==
    IF media_info = NoKeys
    THEN [result |-> media_info, searched |-> FALSE]
    ELSE LET enhanced_info ==
                IF DictGet(media_info, "media", NoKeys) = NoKeys
                THEN [media |-> NoKeys] @@ media_info
                ELSE media_info
             title == DictGet(enhanced_info.media, "title", "")
             detected == detect_content_type(title)
             typed == [content_type |-> detected[1],
                       content_metadata |-> detected[2]] @@ enhanced_info
         IN  IF title = ""
             THEN [result |-> enhanced_info, searched |-> FALSE]
             ELSE [result |-> IF answer # None
                              THEN [content_image_url |-> answer[1]] @@ typed
                              ELSE typed,
                   searched |-> TRUE]

\* The titles of the __main__ block (lines 185-196), random_clip.mp4, and
\* titles that match more than one test or stop short of one.
Titles ==
    {"The.Office.S03E10.720p.HDTV.x264-DIMENSION.mkv",
     "Inception.2010.1080p.BluRay.x264-SPARKS.mkv",
     "[HorribleSubs] Attack on Titan - 03 [1080p].mkv",
     "random_clip.mp4",
     "[Group] Show.S01E02 [720p].mkv",
     "[Sub] Film.2010.x.mkv",
     "Show.2010.S01E02.mkv",
     "Blade.Runner.2049.mkv",
     "1920x1080 test.mp4",
     "Movie (2010).mkv",
     "a.sub.b.mkv",
     "Show Season 2 Episode 5.avi",
     "Show.3x07.WEB-DL.mkv",
     "[x] y.MKV"}

\* The inputs of analyze: without a title, and with each title, alone or
\* beside a status key.
WithStatus(dict) == [status |-> "playing"] @@ dict

Untitled ==
    {NoKeys, [status |-> "playing"], [media |-> NoKeys],
     WithStatus([media |-> NoKeys]), [media |-> [title |-> ""]],
     WithStatus([media |-> [title |-> ""]]), [media |-> [artist |-> "x"]]}

VideoInputs ==
    Untitled \cup { [media |-> [title |-> t]] : t \in Titles }
             \cup { WithStatus([media |-> [title |-> t]]) : t \in Titles }

ImageAnswers == {None, Some("https://encrypted-tbn0.gstatic.com/images")}

InitVideo ==
    /\ now = 0
    /\ TextIdle
    /\ SearchIdle
    /\ FuzzyIdle
    /\ ClientIdle
    /\ ScoreIdle
    /\ ReaderIdle
    /\ CoverIdle
    /\ HandlerIdle
    /\ \E m \in VideoInputs, a \in ImageAnswers :
            vd_call = [media_info |-> m, answer |-> a]
    /\ vd_ret = NoVideo

\* detector.analyze(media_info)
Analyze ==
    /\ vd_ret = NoVideo
    /\ vd_ret' = [done |-> TRUE] @@ analyze(vd_call.media_info, vd_call.answer)
    /\ UNCHANGED <<now, vd_call, textVars, scoreVars, searchVars, fuzzyVars, client, readerVars,
                   coverVars, handlerVars>>

NextVideo == Analyze

SpecVideo == InitVideo /\ [][NextVideo]_vars

\* the title analyze reads from its argument
TitleOf(media_info) == DictGet(DictGet(media_info, "media", NoKeys), "title", "")

\* C21: for the four example titles _detect_content_type yields tv_show with
\* show_name 'The Office', season 3 and episode 10; movie with movie_name
\* 'Inception' and year '2010'; anime with an anime_name that contains
\* 'Attack on Titan' and episode 3; and video for random_clip.mp4.
C21_ExampleTitles ==
    vd_ret.done =>
        LET t == TitleOf(vd_call.media_info)
            ct == vd_ret.result.content_type
            md == vd_ret.result.content_metadata
        IN  /\ t = "The.Office.S03E10.720p.HDTV.x264-DIMENSION.mkv" =>
                    /\ ct = "tv_show"
                    /\ md.show_name = Some("The Office")
                    /\ md.season = Some(3)
                    /\ md.episode = Some(10)
            /\ t = "Inception.2010.1080p.BluRay.x264-SPARKS.mkv" =>
                    /\ ct = "movie"
                    /\ md.movie_name = Some("Inception")
                    /\ md.year = Some("2010")
            /\ t = "[HorribleSubs] Attack on Titan - 03 [1080p].mkv" =>
                    /\ ct = "anime"
                    /\ md.anime_name # None
                    /\ contains("Attack on Titan", md.anime_name[1])
                    /\ md.episode = Some(3)
            /\ t = "random_clip.mp4" => ct = "video"

\* C21 witness: the TV example has been analyzed and classified
C21_Witness ==
    /\ vd_ret.done
    /\ TitleOf(vd_call.media_info) = "The.Office.S03E10.720p.HDTV.x264-DIMENSION.mkv"
    /\ vd_ret.result.content_type = "tv_show"

\* C22: the tests are made in the order TV, movie, anime, fallback and the
\* first match wins: the type is one of the four; a title that matches a TV
\* pattern is tv_show whatever else it matches; one that matches the movie
\* pattern and no TV pattern is movie, bracket tags or not; video is returned
\* exactly when none of the three tests matches.
C22_FirstMatchWins ==
    vd_ret.done /\ TitleOf(vd_call.media_info) # "" =>
        LET clean == clean_title(TitleOf(vd_call.media_info))
            ct == vd_ret.result.content_type
            tv == tv_match(clean).matched
            movie == movie_match(clean).matched
        IN  /\ ct \in {"tv_show", "movie", "anime", "video"}
            /\ tv => ct = "tv_show"
            /\ ~tv /\ movie => ct = "movie"
            /\ ~tv /\ ~movie /\ anime_test(clean) => ct = "anime"
            /\ ct = "video" <=> ~tv /\ ~movie /\ ~anime_test(clean)

\* C22 witness: a title that matches a TV pattern and the movie pattern has
\* been classified as tv_show
C22_Witness ==
    /\ vd_ret.done
    /\ TitleOf(vd_call.media_info) # ""
    /\ tv_match(clean_title(TitleOf(vd_call.media_info))).matched
    /\ movie_match(clean_title(TitleOf(vd_call.media_info))).matched
    /\ vd_ret.result.content_type = "tv_show"

\* C23: for an input without a title analyze returns a value equal to the
\* input, no key added or changed, and makes no image search.
C23_UntitledReturnsInput ==
    vd_ret.done /\ TitleOf(vd_call.media_info) = "" =>
        /\ vd_ret.result = vd_call.media_info
        /\ ~vd_ret.searched

\* C31: every media with a non-empty album leads to a releases search, also
\* when album is the only field; media with no album but artist and title
\* leads to a recordings search; so every media for which _build_query
\* returns a query leads to at least one search request.
C31_QueryLeadsToSearch ==
    mb_ret.done =>
        LET media == mb_call.media
            requested(kind) ==
                \E i \in 1..Len(mb_ret.requests) : mb_ret.requests[i] = kind
        IN  /\ TruthyText(media.album) => requested("release")
            /\ ~TruthyText(media.album) /\ TruthyText(media.artist)
                    /\ TruthyText(media.title) => requested("recording")
            /\ build_query(media) # None => mb_ret.requests # << >>

\* The score of a candidate: for a releases search the one the scoring rules
\* give the release alone.
CandidateScore(c, strategy, media) ==
    calculate_release_score(IF strategy = 2 THEN c.recording
                            ELSE Recording(None, None),
                            c.release, Scored(media)).score

\* What C32 says of one search that got the candidates cands.
BestConfirmed(search, cands, media) ==
    LET score(k) == CandidateScore(cands[k], search.strategy, media)
        index(id) == CHOOSE k \in 1..Len(cands) : cands[k].id = id
        eligible == { k \in 1..Len(cands) :
                        score(k) >= MIN_SCORE /\ cands[k].artwork }
        probes == search.probes
    IN  /\ eligible # {} =>
                \E k \in eligible :
                    /\ \A j \in eligible : score(j) <= score(k)
                    /\ search.url = Some(CoverUrl(cands[k].id))
        /\ eligible = {} => search.url = None
        /\ \A i \in 1..Len(probes) : score(index(probes[i])) >= MIN_SCORE
        /\ \A i \in 1..(Len(probes) - 1) :
                /\ score(index(probes[i])) >= score(index(probes[i + 1]))
                /\ ~cands[index(probes[i])].artwork

\* C32: for a releases search and a recordings search alike, when the
\* response holds candidates the URL returned is the artwork URL of the
\* highest-scoring candidate with score >= 30 whose probe succeeds;
\* candidates are probed in non-increasing score order, none with score < 30,
\* none after the first confirmed one; None is returned only if no candidate
\* with score >= 30 has confirmed artwork.
C32_BestConfirmedArtwork ==
    mb_ret.done =>
        \A i \in 1..Len(mb_ret.searches) :
            LET search == mb_ret.searches[i]
                answer == mb_call.answers[search.strategy]
            IN  answer.ok /\ answer.candidates # << >> =>
                    BestConfirmed(search, answer.candidates, mb_call.media)

\* C33: the artist-only fallback search is made at most once per call, only
\* after every earlier search returned nothing and only when the fallback
\* query differs from the original one; a call makes at most three search
\* requests and ends with a URL or None.
C33_FallbackOnceAndLast ==
    mb_ret.done =>
        LET searches == mb_ret.searches
            fallbacks == { i \in 1..Len(searches) : searches[i].strategy = 3 }
        IN  /\ Len(mb_ret.requests) <= 3
            /\ Len(searches) = Len(mb_ret.requests)
            /\ Cardinality(fallbacks) <= 1
            /\ \A i \in fallbacks :
                    /\ \A j \in 1..(i - 1) : searches[j].url = None
                    /\ build_fallback_query(mb_call.media) # None
                    /\ build_fallback_query(mb_call.media)
                            # build_query(mb_call.media)
            /\ \/ mb_ret.url = None
               \/ \E k \in 1..Len(CandidateIds) :
                        mb_ret.url = Some(CoverUrl(CandidateIds[k]))

\* C33 witness: a call has made the releases search, the recordings search
\* and then the fallback search
C33_Witness ==
    /\ mb_ret.done
    /\ mb_ret.requests = <<"release", "recording", "release">>
    /\ mb_ret.searches[3].strategy = 3

\* C34: the artwork of the generic image search (content_image_url) is the
\* large_image of a Playing/Paused update only when the metadata cover-art
\* search was tried for that media in the call and yielded nothing; when
\* neither source yields a URL, large_image is the static default.
C34_ContentImageAfterCoverSearch ==
    [][ ( /\ cycle'.n # cycle.n
          /\ cycle'.state \in {"Playing", "Paused"}
          /\ cycle'.status # None )
        => \A i \in 1..Len(sink') :
              sink'[i].op = "update" =>
                LET info == cycle'.status[1]
                    searched == /\ ca_call'.n # ca_call.n
                                /\ ca_call'.media = Some(info.media)
                IN  /\ ( /\ TruthyText(info.content_image_url)
                         /\ sink'[i].large_image = info.content_image_url )
                        => searched
                    /\ ~TruthyText(info.content_image_url) /\ ~searched
                        => sink'[i].large_image = Some(LARGE_IMAGE) ]_vars

\* The details text C35 states, before truncation.
DetailsByRule(info) ==
    LET md == info.content_metadata
        content_type == Get(info.content_type, "")
    IN  IF content_type = "tv_show" /\ TruthyText(md.show_name)
        THEN IF md.season # None /\ md.episode # None
             THEN md.show_name[1] \o " S" \o fmt02d(md.season[1])
                     \o "E" \o fmt02d(md.episode[1])
             ELSE md.show_name[1]
        ELSE IF content_type = "movie" /\ TruthyText(md.movie_name)
        THEN IF TruthyText(md.year)
             THEN md.movie_name[1] \o " (" \o md.year[1] \o ")"
             ELSE md.movie_name[1]
        ELSE IF content_type = "anime" /\ TruthyText(md.anime_name)
        THEN IF md.episode # None
             THEN md.anime_name[1] \o " - Episode " \o str(md.episode[1])
             ELSE md.anime_name[1]
        ELSE Get(info.media.title, "Unknown")

\* C35: the details of every Playing/Paused update are the show name with
\* zero-padded ' SxxEyy' for a tv_show with show name, season and episode
\* (season 0 or episode 0 included), 'movie name (year)' for a movie, 'anime
\* name - Episode N' for anime with an episode, the raw title otherwise, then
\* truncated by the 128-character rule.
C35_DetailsFollowClassification ==
    (cycle.state \in {"Playing", "Paused"} /\ cycle.status # None) =>
        \A i \in 1..Len(sink) :
            sink[i].op = "update" =>
                sink[i].details =
                    format_text(DetailsByRule(cycle.status[1]), TEXT_LIMIT)

\* The text with every character that is no letter, digit or underscore
\* removed, spaces too.
RECURSIVE WordsOnly(_)
WordsOnly(text) ==
    IF text = "" THEN ""
    ELSE (IF SubSeq(text, 1, 1) = " " THEN "" ELSE strip_special(SubSeq(text, 1, 1)))
         \o WordsOnly(SubSeq(text, 2, Len(text)))

\* The relation C36 states, on two normalised texts.
EqualOrInside(s1, s2) ==
    \/ s1 = s2
    \/ Len(s1) > 5 /\ Len(s2) > 5 /\ (contains(s1, s2) \/ contains(s2, s1))

\* C36 as stated: _fuzzy_match(a, b) is true exactly when, after case-folding
\* and removing every non-word character, spaces and punctuation included,
\* the two are equal or both are longer than 5 characters and one contains
\* the other.
C36_SpacesRemoved ==
    fz_ret.done =>
        fz_ret.result = EqualOrInside(WordsOnly(lower(fz_call.str1)),
                                      WordsOnly(lower(fz_call.str2)))

\* C36, amended: _fuzzy_match(a, b) is true exactly when, after lower-casing
\* and removing every character that is neither a word character nor
\* whitespace (punctuation goes, spaces stay), the two are equal or both are
\* longer than 5 characters and one contains the other; the relation is
\* reflexive and symmetric.
C36_SpacesKept ==
    fz_ret.done =>
        /\ fz_ret.result = EqualOrInside(strip_special(lower(fz_call.str1)),
                                         strip_special(lower(fz_call.str2)))
        /\ fz_ret.result = fuzzy_match(fz_call.str2, fz_call.str1)
        /\ fz_call.str1 = fz_call.str2 => fz_ret.result

\* C36 witness: two different texts matched because one contains the other
C36_Witness ==
    /\ fz_ret.done
    /\ fz_ret.result
    /\ fz_call.str1 = "Pink Floyd"
    /\ fz_call.str2 = "The Pink Floyd Band"

\* C37: whenever connected is True, rpc is a Presence whose connect()
\* succeeded; update() and clear() make no call on the rpc while connected is
\* False (update connects first, clear returns False with no call); an
\* exception raised by rpc.update or rpc.clear sets connected to False.
C37_ConnectedMeansUsableRpc ==
    LET last == client.last
        calls == last.calls
    IN  /\ client.connected => client.rpc # None /\ client.rpc[1].connected
        /\ last.op = "clear" /\ ~last.was_connected =>
                calls = << >> /\ ~last.ret
        /\ last.op = "update" /\ ~last.was_connected =>
                /\ calls # << >>
                /\ calls[1].op = "connect"
                /\ ~calls[1].ok => Len(calls) = 1 /\ ~last.ret
        /\ \A i \in 1..Len(calls) :
                calls[i].op \in {"update", "clear"} /\ ~calls[i].ok =>
                    ~client.connected /\ ~last.ret

\* C37 witness: an update on a client that was not connected has connected
\* and then failed in rpc.update
C37_Witness ==
    /\ client.last.op = "update"
    /\ ~client.last.was_connected
    /\ Len(client.last.calls) = 2
    /\ ~client.last.calls[2].ok
    /\ ~client.connected

\* C38: after close() returns, connected is False, whether or not the
\* underlying close raised.
C38_ClosedMeansDisconnected ==
    client.last.op = "close" => ~client.connected

\* C39: last_file_mod_time never decreases; no modification time is given to
\* json.load twice; after a read_status call on a file, that file's
\* modification time is not after last_file_mod_time, also when its JSON was
\* invalid, so that it is read again only with a later modification time.
C39_EachVersionReadOnce ==
    LET parsed == cycle.parsed
    IN  /\ cycle.before <= last_file_mod_time
        /\ \A i \in 1..Len(parsed), j \in 1..Len(parsed) :
                i < j => parsed[i] < parsed[j]
        /\ cycle.ret # None =>
                /\ parsed # << >>
                /\ parsed[Len(parsed)] = last_file_mod_time
                /\ cycle.before < last_file_mod_time
        /\ cycle.file.exists => cycle.file.mtime <= last_file_mod_time

\* C39 witness: a file with invalid JSON has been read, and a later call on
\* the same file has returned None without reading it again
C39_Witness ==
    /\ cycle.file.exists
    /\ cycle.file.content = [json |-> "invalid"]
    /\ cycle.parsed = <<cycle.file.mtime>>
    /\ cycle.before = cycle.file.mtime
    /\ last_file_mod_time = cycle.file.mtime
    /\ cycle.ret = None

====
